---- MODULE Spec2Model ----
(***************************************************************************)
(* A model of the Hazelcast Rust client: the member registry and the       *)
(* cluster operations built on it (client/src/remote/cluster.rs), the      *)
(* liveness pinger, the PN counter handle (client/src/protocol/            *)
(* pn_counter.rs), the multiplexing channel (client/src/remote/channel.rs), *)
(* the construction of the cluster out of its seed endpoints               *)
(* (client/src/remote/member.rs, Members::from, Cluster::init) and the     *)
(* frame codec (src/remote/mod.rs, src/bytes/mod.rs), the Correlator of    *)
(* the legacy channel task (src/remote/mod.rs) and the value codec         *)
(* (client/src/codec/mod.rs).                                              *)
(*                                                                         *)
(* Eight specifications share the module:                                  *)
(*   SpecRegistry  the Registry object under its four methods;             *)
(*   SpecCluster   a running Cluster: callers, pinger, channel failures;   *)
(*   SpecConnect   the construction of a Cluster from its endpoints;       *)
(*   SpecChannel   one Channel with concurrent callers of send;            *)
(*   SpecCounter   one PnCounter handle, its requests and their replies;   *)
(*   SpecFrame     FrameCodec::encode and decode, byte by byte;            *)
(*   SpecCorrelator the ids Correlator::set hands out, at 64 bits;         *)
(*   SpecCodec     Writer::write_to and Reader::read_from, byte by byte.   *)
(* Each leaves the variables of the others at their initial values.        *)
(***************************************************************************)
EXTENDS Integers, Sequences, FiniteSets, TLC

\* The socket addresses of the model: seed endpoints and registry keys.
Addr == {"a1", "a2", "a3"}
NoAddr == "none"
NoStatus == -1
NoError == [kind |-> "none", detail |-> "none"]
Callers == {"c1", "c2", "c3"}
NoCaller == "nobody"

\* Registry::get is called at most MaxSeq times (the sequencer is unbounded).
MaxSeq == 4

VARIABLES
    vec,          \* Registry.vec: the enabled (key, member) pairs, in order
    map,          \* Registry.map: key -> member, NoMember when absent
    disabled,     \* Registry.disabled
    sequencer,    \* Registry.sequencer
    alive,        \* per member: its channel's background task still runs
    dropped,      \* the Cluster has been dropped
    pingPc,       \* the pinger task: "wait", "round" or "stopped"
    pingQueue,    \* the members of this round still to be pinged
    pingCur,      \* the member whose ping is in flight, or NoMember
    pingRes,      \* what the ping that returned last returned, until the
                  \* pinger moves on
    ret,          \* what the last call of a Cluster or PnCounter method returned
    reg,          \* SpecRegistry: the Registry call of the last step
    selections,   \* SpecRegistry: what get returned since the last disable
    disableDone,  \* SpecRegistry: the keys a completed disable was called with
    disableCalls, \* SpecRegistry, per key: "never" disabled, "removed" or
                  \* "absent" (what its first disable found), "again" (disabled
                  \* once more after a disable that removed it)
    lastOk,       \* history: the address the handle's last successful get/add used
    pending,      \* Members::from: the seed endpoints not yet tried
    connPc,       \* Cluster::init: where the construction stands
    connCur,      \* the endpoint Member::connect is working on, or NoAddr
    connected,    \* Members::from: address -> member, NoMember when absent
    disconnected, \* Members::from: the endpoints that failed
    wire,         \* per endpoint: what has been written to its socket, in order
    authStatus,   \* history, per endpoint: the status of its authentication
                  \* response, NoStatus when none was decoded
    created,      \* history: the endpoints Member::connect returned a Member for
    connErr,      \* history, per endpoint: the error Member::connect returned
    sequence,     \* Channel.sequence, the next correlation id
    egress,       \* the mpsc queue of (frame, correlation_id, responder)
    correlations, \* the task's HashMap: correlation id -> responder
    taskPc,       \* the channel task: "next", "write", "insert" or "dead"
    taskFrame,    \* the egress event the task is handling
    received,     \* the request frames the peer has read and not yet answered
    ingress,      \* the reply frames on their way to the task, in order
    sendPc,       \* per caller of Channel::send: where it stands
    sendId,       \* per caller: the correlation id its request was given
    sendResult,   \* per caller: what Channel::send returned
    written,      \* history: correlation ids in the order they were written
    arrived,      \* history: correlation ids in the order the replies arrived
    deliveries,   \* history, per caller: the messages its responder was handed
    replica_timestamps, \* PnCounter.replica_timestamps: the stored vector
    counterPc,    \* the handle: "idle", "wait" (dispatch pending) or "panic"
    counterOp,    \* the operation in progress or last run, with its delta
    request,      \* the request the operation handed to Cluster::dispatch
    response,     \* history: the last reply a dispatch of the handle decoded
    counterRet,   \* what the last operation returned
    lastVector,   \* history: the vector of the last successful get/add response
    before,       \* history: the stored vector when the operation was called
    operations,   \* history: the number of operations called
    dispatches,   \* history: the Cluster::dispatch calls of the operation in hand
    frameMessage, \* FrameCodec: the message (type, partition id, payload) given
    frameId,      \* FrameCodec: the correlation id given
    frameBytes,   \* FrameCodec::encode: the bytes written to the frame
    frameDecoded, \* FrameCodec::decode: what it returned
    framePc,      \* "given", "encoded", "decoded"; "corrupted" and "handled" for
                  \* a frame whose data offset the peer has set
    correlatorSequence,     \* Correlator.sequence, a u64 as four 16-bit limbs
    correlatorCorrelations, \* Correlator.correlations: the ids it holds
    correlatorReturned,     \* history: the ids set returned, in order
    correlatorClash,        \* history: a set inserted under an id already held
    correlatorPc,           \* "ready", or "panic" after an overflow check failed
    codecCase,    \* the typed value handed to the codec (an index of CodecCases)
    codecTail,    \* the bytes that follow the value's encoding in the buffer
    codecBytes,   \* Writer::write_to: the bytes written
    codecRead,    \* Reader::read_from: the value read and the bytes left
    codecPc       \* "given", "written" or "read"

registryVars == <<vec, map, disabled, sequencer>>
histVars == <<reg, selections, disableDone, disableCalls>>
clusterVars == <<alive, dropped, pingPc, pingQueue, pingCur, pingRes, ret, lastOk>>
connVars == <<pending, connPc, connCur, connected, disconnected, wire,
              authStatus, created, connErr>>
chanVars == <<sequence, egress, correlations, taskPc, taskFrame, received,
              ingress, sendPc, sendId, sendResult, written, arrived,
              deliveries>>
cntVars == <<replica_timestamps, counterPc, counterOp, request, response,
             counterRet, lastVector, before, operations, dispatches>>
frameVars == <<frameMessage, frameId, frameBytes, frameDecoded, framePc>>
correlatorVars == <<correlatorSequence, correlatorCorrelations, correlatorReturned,
                    correlatorClash, correlatorPc>>
codecVars == <<codecCase, codecTail, codecBytes, codecRead, codecPc>>
outsideCluster == <<connVars, chanVars, cntVars, frameVars,
                   correlatorVars, codecVars>>
vars == <<vec, map, disabled, sequencer, alive, dropped, pingPc, pingQueue,
          pingCur, pingRes, ret, reg, selections, disableDone, disableCalls, lastOk,
          pending, connPc, connCur, connected, disconnected, wire,
          authStatus, created, connErr,
          sequence, egress, correlations, taskPc, taskFrame, received,
          ingress, sendPc, sendId, sendResult, written, arrived, deliveries,
          replica_timestamps, counterPc, counterOp, request, response,
          counterRet, lastVector, before, operations, dispatches,
          frameMessage, frameId, frameBytes, frameDecoded, framePc,
          correlatorSequence, correlatorCorrelations, correlatorReturned,
          correlatorClash, correlatorPc,
          codecCase, codecTail, codecBytes, codecRead, codecPc>>

----------------------------------------------------------------------------
(* Members and the Registry (cluster.rs)                                   *)

\* A member: the address its server reported and the endpoint it was dialled at.
MemberOf(a, e) == [address |-> a, endpoint |-> e]
Member(a) == MemberOf(a, a)
NoMember == Member(NoAddr)
MemberAddress(m) == m.address

Keys(v) == {v[i][1] : i \in DOMAIN v}

\* All orders in which a HashMap over the keys ks may be iterated.
Orders(ks) ==
    {s \in [1..Cardinality(ks) -> ks] : \A i, j \in DOMAIN s : i # j => s[i] # s[j]}

\* Registry::new: vec from the enabled map's iteration, map from vec.
RegistryNewVec(enabled, order) ==
    [i \in DOMAIN order |-> <<order[i], enabled[order[i]]>>]
RegistryNewMap(v) ==
    [a \in Addr |-> IF \E i \in DOMAIN v : v[i][1] = a
                    THEN (CHOOSE p \in {v[i] : i \in DOMAIN v} : p[1] = a)[2]
                    ELSE NoMember]

\* Registry::get: None on an empty vec, else vec[sequence % len].
RegistryGetIndex(seq, len) == (seq % len) + 1
RegistryGet(v, seq) ==
    IF Len(v) = 0 THEN NoMember ELSE v[RegistryGetIndex(seq, Len(v))][2]
\* fetch_add happens only on the non-empty branch.
RegistryGetSequenceLoad(v, seq) == seq
RegistryGetSequence(v, seq) == IF Len(v) = 0 THEN seq ELSE seq + 1

\* Registry::get_by
RegistryGetBy(m, key) == m[key]

\* Registry::get_all
RegistryGetAll(v) == [i \in DOMAIN v |-> v[i][2]]

\* Registry::disable: remove the first pair with the key from vec, the key
\* from map, and remember the key.
Position(v, key) ==
    IF \E i \in DOMAIN v : v[i][1] = key
    THEN CHOOSE i \in DOMAIN v :
            v[i][1] = key /\ \A j \in 1..(i - 1) : v[j][1] # key
    ELSE 0
VecRemove(v, i) == [j \in 1..(Len(v) - 1) |-> IF j < i THEN v[j] ELSE v[j + 1]]
\* Vec::swap_remove in place of Vec::remove
VecSwapRemove(v, i) ==
    [j \in 1..(Len(v) - 1) |-> IF j = i THEN v[Len(v)] ELSE v[j]]
RegistryDisableVecSwap(v, key) ==
    IF Position(v, key) = 0 THEN v ELSE VecSwapRemove(v, Position(v, key))
RegistryDisableVec(v, key) ==
    IF Position(v, key) = 0 THEN v ELSE VecRemove(v, Position(v, key))
RegistryDisableMapBad(m, key) == m
RegistryDisableMap(m, key) == [m EXCEPT ![key] = NoMember]
\* the set replaced by the key in place of HashSet::insert
RegistryDisableSetOnly(d, key) == {key}
RegistryDisableSet(d, key) == d \cup {key}

SeqToSet(s) == {s[i] : i \in DOMAIN s}
Call(fn, key, out) == [fn |-> fn, key |-> key, out |-> out]
Some(m) == IF m = NoMember THEN {} ELSE {m}

NoRet == [op |-> "none", arg |-> NoAddr, res |-> "none", sentTo |-> {}]

\* The registries Members::from and Registry::new can build: the members that
\* authenticated, in the iteration order of a HashMap, and the endpoints that
\* did not.
RegistryInit ==
    /\ \E ks \in SUBSET Addr : \E order \in Orders(ks) :
          /\ vec = RegistryNewVec([a \in ks |-> Member(a)], order)
          /\ map = RegistryNewMap(RegistryNewVec([a \in ks |-> Member(a)], order))
    /\ disabled \in SUBSET Addr
    /\ sequencer = 0
    /\ reg = <<>>
    /\ selections = <<>>
    /\ disableDone = {}
    /\ disableCalls = [a \in Addr |-> "never"]

\* The construction is over (its variables as Members::from leaves them).
ConnectIdle ==
    /\ pending = {}
    /\ connPc = "done"
    /\ connCur = NoAddr
    /\ connected = [a \in Addr |-> NoMember]
    /\ disconnected = {}
    /\ wire = [a \in Addr |-> <<>>]
    /\ authStatus = [a \in Addr |-> NoStatus]
    /\ created = {}
    /\ connErr = [a \in Addr |-> NoError]

\* No frame is being encoded.
NoMessage == [message_type |-> 0, partition_id |-> 0, payload |-> <<>>]
NoDecoded == [kind |-> "none", message |-> NoMessage, correlation_id |-> 0]
FrameIdle ==
    /\ frameMessage = NoMessage
    /\ frameId = 0
    /\ frameBytes = <<>>
    /\ frameDecoded = NoDecoded
    /\ framePc = "decoded"

\* A Correlator as Correlator::new returns it.
CorrelatorIdle ==
    /\ correlatorSequence = <<0, 0, 0, 0>>
    /\ correlatorCorrelations = {}
    /\ correlatorReturned = <<>>
    /\ correlatorClash = FALSE
    /\ correlatorPc = "ready"

\* No value is being written or read.
NoRead == [kind |-> "none", value |-> 0, rest |-> <<>>]
CodecIdle ==
    /\ codecCase = 1
    /\ codecTail = <<>>
    /\ codecBytes = <<>>
    /\ codecRead = NoRead
    /\ codecPc = "read"

\* A counter handle as PnCounter::new returns it.
NoValue == -1
NoOp == [op |-> "none", delta |-> 0]
NoRequest == [type |-> 0, payload |-> [name |-> "none"]]
NoResponse == [type |-> 0, value |-> NoValue, replica_timestamps |-> <<>>,
               exception |-> "none"]
NoCounterRet == [kind |-> "none", value |-> NoValue, detail |-> "none"]
CounterIdle ==
    /\ replica_timestamps = <<>>
    /\ counterPc = "idle"
    /\ counterOp = NoOp
    /\ request = NoRequest
    /\ response = NoResponse
    /\ counterRet = NoCounterRet
    /\ lastVector = <<>>
    /\ before = <<>>
    /\ operations = 0
    /\ dispatches = 0

\* No channel traffic (a channel as Channel::connect returns it).
NoFrame == [correlation_id |-> 0, body |-> "none"]
NoEvent == [frame |-> NoFrame, correlation_id |-> 0, responder |-> NoCaller]
NoResult == [kind |-> "none", correlation_id |-> 0, body |-> "none"]
ChannelIdle ==
    /\ sequence = 1
    /\ egress = <<>>
    /\ correlations = [id \in 1..Cardinality(Callers) |-> NoCaller]
    /\ taskPc = "next"
    /\ taskFrame = NoEvent
    /\ received = {}
    /\ ingress = <<>>
    /\ sendPc = [c \in Callers |-> "idle"]
    /\ sendId = [c \in Callers |-> 0]
    /\ sendResult = [c \in Callers |-> NoResult]
    /\ written = <<>>
    /\ arrived = <<>>
    /\ deliveries = [c \in Callers |-> 0]

\* no ping has returned since the pinger moved on
NoRes == "none"
ClusterIdle ==
    /\ alive = [a \in Addr |-> TRUE]
    /\ dropped = FALSE
    /\ pingPc = "wait"
    /\ pingQueue = <<>>
    /\ pingCur = NoMember
    /\ pingRes = NoRes
    /\ ret = NoRet
    /\ lastOk = NoAddr

----------------------------------------------------------------------------
(* SpecRegistry: the four methods of Registry, called in any order         *)

Get ==
    /\ sequencer < MaxSeq
    /\ sequencer' = RegistryGetSequence(vec, sequencer)
    /\ reg' = <<Call("get", NoAddr, Some(RegistryGet(vec, sequencer)))>>
    /\ selections' = IF RegistryGet(vec, sequencer) = NoMember
                     THEN selections
                     ELSE Append(selections, RegistryGet(vec, sequencer))
    /\ UNCHANGED <<vec, map, disabled, disableDone, disableCalls>>
    /\ UNCHANGED <<clusterVars, outsideCluster>>

GetBy(key) ==
    /\ reg' = <<Call("get_by", key, Some(RegistryGetBy(map, key)))>>
    /\ UNCHANGED <<vec, map, disabled, sequencer, selections, disableDone, disableCalls>>
    /\ UNCHANGED <<clusterVars, outsideCluster>>

GetAll ==
    /\ reg' = <<Call("get_all", NoAddr, SeqToSet(RegistryGetAll(vec)))>>
    /\ UNCHANGED <<vec, map, disabled, sequencer, selections, disableDone, disableCalls>>
    /\ UNCHANGED <<clusterVars, outsideCluster>>

Disable(key) ==
    /\ vec' = RegistryDisableVec(vec, key)
    /\ map' = RegistryDisableMap(map, key)
    /\ disabled' = RegistryDisableSet(disabled, key)
    /\ reg' = <<Call("disable", key, {})>>
    /\ selections' = <<>>
    /\ disableDone' = disableDone \cup {key}
    /\ disableCalls' = [disableCalls EXCEPT ![key] =
                            CASE @ = "never" /\ key \in Keys(vec) -> "removed"
                              [] @ = "never" -> "absent"
                              [] @ = "absent" -> "absent"
                              [] OTHER -> "again"]
    /\ UNCHANGED sequencer
    /\ UNCHANGED <<clusterVars, outsideCluster>>

RegistryNext ==
    \/ Get
    \/ \E key \in Addr : GetBy(key)
    \/ GetAll
    \/ \E key \in Addr : Disable(key)

\* A registry of any content, with nothing else going on.
RegistryAlone ==
    /\ RegistryInit
    /\ ClusterIdle
    /\ ConnectIdle
    /\ ChannelIdle
    /\ CounterIdle
    /\ FrameIdle
    /\ CorrelatorIdle
    /\ CodecIdle

SpecRegistry == RegistryAlone /\ [][RegistryNext]_vars

----------------------------------------------------------------------------
(* SpecCluster: a running Cluster (cluster.rs) with its pinger, the        *)
(* callers of its methods and of the PnCounter handle (pn_counter.rs)      *)

Ret(op, arg, res, sentTo) == [op |-> op, arg |-> arg, res |-> res, sentTo |-> sentTo]

\* Member::send: the channel's reply is the expected response or a server
\* exception; a channel whose task has ended yields a communication failure.
MemberSend(m) ==
    IF alive[MemberAddress(m)] THEN {"Ok", "ServerFailure"}
    ELSE {"CommunicationFailure"}

\* Cluster::dispatch: the member Registry::get selects, or the error.
ClusterDispatchTarget(v, seq) == RegistryGet(v, seq)
ClusterDispatchResultsNode(m) ==
    IF m = NoMember THEN {"NodeNonOperational"} ELSE MemberSend(m)
ClusterDispatchResults(m) ==
    IF m = NoMember THEN {"ClusterNonOperational"} ELSE MemberSend(m)

\* Cluster::forward: the member Registry::get_by finds, or the error.
ClusterForwardTargetFallback(m, v, seq, address) ==
    IF RegistryGetBy(m, address) # NoMember THEN RegistryGetBy(m, address)
    ELSE RegistryGet(v, seq)
ClusterForwardTarget(m, v, seq, address) == RegistryGetBy(m, address)
ClusterForwardResults(m) ==
    IF m = NoMember THEN {"NodeNonOperational"} ELSE MemberSend(m)

\* Cluster::address: the preferred address when get_by finds it, else the
\* address of the member get selects, else the error.
ClusterAddressPreferred(m, address) ==
    IF address = NoAddr THEN NoAddr
    ELSE IF RegistryGetBy(m, address) # NoMember THEN address ELSE NoAddr
ClusterAddressResultIgnoring(m, v, seq, address) ==
    IF RegistryGet(v, seq) # NoMember THEN MemberAddress(RegistryGet(v, seq))
    ELSE "ClusterNonOperational"
ClusterAddressResult(m, v, seq, address) ==
    IF ClusterAddressPreferred(m, address) # NoAddr
    THEN ClusterAddressPreferred(m, address)
    ELSE IF RegistryGet(v, seq) # NoMember
         THEN MemberAddress(RegistryGet(v, seq))
         ELSE "ClusterNonOperational"

\* PnCounter::get, ::add and ::replica_count all go through Cluster::dispatch.
Dispatch(op) ==
    /\ ~dropped
    /\ sequencer < MaxSeq
    /\ \E res \in ClusterDispatchResults(ClusterDispatchTarget(vec, sequencer)) :
          /\ ret' = Ret(op, NoAddr, res, Some(ClusterDispatchTarget(vec, sequencer)))
          /\ lastOk' = IF op = "replica_count" THEN lastOk
                       ELSE IF res = "Ok"
                            THEN MemberAddress(ClusterDispatchTarget(vec, sequencer))
                            ELSE NoAddr
    /\ sequencer' = RegistryGetSequence(vec, sequencer)
    /\ UNCHANGED <<vec, map, disabled>>
    /\ UNCHANGED <<histVars, outsideCluster>>
    /\ UNCHANGED <<alive, dropped, pingPc, pingQueue, pingCur, pingRes>>

PnCounterGet == Dispatch("get")

PnCounterAdd(get_before_update) ==
    Dispatch(IF get_before_update THEN "get_and_add" ELSE "add_and_get")

PnCounterReplicaCount == Dispatch("replica_count")

ClusterForward(address) ==
    /\ ~dropped
    /\ \E res \in ClusterForwardResults(ClusterForwardTarget(map, vec, sequencer, address)) :
          ret' = Ret("forward", address, res,
                     Some(ClusterForwardTarget(map, vec, sequencer, address)))
    /\ UNCHANGED <<vec, map, disabled, sequencer>>
    /\ UNCHANGED <<histVars, outsideCluster>>
    /\ UNCHANGED <<alive, dropped, pingPc, pingQueue, pingCur, pingRes, lastOk>>

ClusterAddress(address) ==
    /\ ~dropped
    /\ ret' = Ret("address", address,
                  ClusterAddressResult(map, vec, sequencer, address), {})
    /\ IF ClusterAddressPreferred(map, address) # NoAddr
       THEN UNCHANGED sequencer
       ELSE /\ sequencer < MaxSeq
            /\ sequencer' = RegistryGetSequence(vec, sequencer)
    /\ UNCHANGED <<vec, map, disabled>>
    /\ UNCHANGED <<histVars, outsideCluster>>
    /\ UNCHANGED <<alive, dropped, pingPc, pingQueue, pingCur, pingRes, lastOk>>

ClusterToString ==
    /\ ~dropped
    /\ ret' = Ret("to_string", NoAddr, "Ok", {})
    /\ UNCHANGED <<vec, map, disabled, sequencer>>
    /\ UNCHANGED <<histVars, outsideCluster>>
    /\ UNCHANGED <<alive, dropped, pingPc, pingQueue, pingCur, pingRes, lastOk>>

\* The background task of an enabled member's channel ends (a read, framing
\* or write error, or the peer closing the connection).
ChannelFail(a) ==
    /\ map[a] # NoMember
    /\ alive[a]
    /\ alive' = [alive EXCEPT ![a] = FALSE]
    /\ UNCHANGED <<vec, map, disabled, sequencer>>
    /\ UNCHANGED <<histVars, outsideCluster>>
    /\ UNCHANGED <<dropped, pingPc, pingQueue, pingCur, pingRes, ret, lastOk>>

\* Dropping the Cluster drops _ping_handle, which cancels the pinger.
ClusterDrop ==
    /\ ~dropped
    /\ dropped' = TRUE
    /\ UNCHANGED <<vec, map, disabled, sequencer>>
    /\ UNCHANGED <<histVars, outsideCluster>>
    /\ UNCHANGED <<alive, pingPc, pingQueue, pingCur, pingRes, ret, lastOk>>

\* Ticks::poll_next: the cancellation is looked at first, then the interval.
\* cancelled: the oneshot receiver is not Pending; due: the interval has a
\* tick ready.
TicksPollNextIntervalFirst(cancelled, due) ==
    IF due THEN "Some" ELSE IF cancelled THEN "None" ELSE "Pending"
TicksPollNext(cancelled, due) ==
    IF cancelled THEN "None" ELSE IF due THEN "Some" ELSE "Pending"

PingTick ==
    /\ pingPc = "wait"
    /\ \E due \in BOOLEAN : TicksPollNext(dropped, due) = "Some"
    /\ pingPc' = "round"
    /\ pingQueue' = RegistryGetAll(vec)
    /\ UNCHANGED <<vec, map, disabled, sequencer>>
    /\ UNCHANGED <<histVars, outsideCluster>>
    /\ UNCHANGED <<alive, dropped, pingCur, pingRes, ret, lastOk>>

PingStop ==
    /\ pingPc = "wait"
    /\ \E due \in BOOLEAN : TicksPollNext(dropped, due) = "None"
    /\ pingPc' = "stopped"
    /\ UNCHANGED <<vec, map, disabled, sequencer>>
    /\ UNCHANGED <<histVars, outsideCluster>>
    /\ UNCHANGED <<alive, dropped, pingQueue, pingCur, pingRes, ret, lastOk>>

\* The body of the for loop: member.send(PingRequest) ...
PingSend ==
    /\ pingPc = "round"
    /\ pingCur = NoMember
    /\ pingQueue # <<>>
    /\ pingCur' = Head(pingQueue)
    /\ pingQueue' = Tail(pingQueue)
    /\ pingRes' = NoRes
    /\ UNCHANGED <<vec, map, disabled, sequencer>>
    /\ UNCHANGED <<histVars, outsideCluster>>
    /\ UNCHANGED <<alive, dropped, pingPc, ret, lastOk>>

\* ... .await, and members.disable(member.address()) on an Err.
PingFailedOnlyServer(res) == res = "ServerFailure"
\* the member disabled whatever its ping returned
PingFailedAlways(res) == TRUE
PingFailed(res) == res # "Ok"
PingDone ==
    /\ pingPc = "round"
    /\ pingCur # NoMember
    /\ pingCur' = NoMember
    /\ \E res \in MemberSend(pingCur) :
          /\ pingRes' = res
          /\ IF PingFailed(res)
             THEN /\ vec' = RegistryDisableVec(vec, MemberAddress(pingCur))
                  /\ map' = RegistryDisableMap(map, MemberAddress(pingCur))
                  /\ disabled' = RegistryDisableSet(disabled, MemberAddress(pingCur))
             ELSE UNCHANGED <<vec, map, disabled>>
    /\ UNCHANGED <<histVars, outsideCluster>>
    /\ UNCHANGED <<sequencer, alive, dropped, pingPc, pingQueue, ret, lastOk>>

PingRoundEnd ==
    /\ pingPc = "round"
    /\ pingCur = NoMember
    /\ pingQueue = <<>>
    /\ pingPc' = "wait"
    /\ UNCHANGED <<vec, map, disabled, sequencer>>
    /\ UNCHANGED <<histVars, outsideCluster>>
    /\ pingRes' = NoRes
    /\ UNCHANGED <<alive, dropped, pingQueue, pingCur, ret, lastOk>>

ClusterNext ==
    \/ PnCounterGet
    \/ \E get_before_update \in BOOLEAN : PnCounterAdd(get_before_update)
    \/ PnCounterReplicaCount
    \/ \E address \in Addr : ClusterForward(address)
    \/ \E address \in Addr \cup {NoAddr} : ClusterAddress(address)
    \/ ClusterToString
    \/ \E a \in Addr : ChannelFail(a)
    \/ ClusterDrop
    \/ PingTick
    \/ PingStop
    \/ PingSend
    \/ PingDone
    \/ PingRoundEnd

\* The registry of a cluster whose seed endpoints are the addresses of Addr,
\* each member reporting the address it was dialled at.
ClusterInit ==
    /\ RegistryInit
    /\ disabled = Addr \ Keys(vec)
    /\ ClusterIdle
    /\ ConnectIdle
    /\ ChannelIdle
    /\ CounterIdle
    /\ FrameIdle
    /\ CorrelatorIdle
    /\ CodecIdle

SpecCluster == ClusterInit /\ [][ClusterNext]_vars

\* The pinger task alone, next to the drop of the Cluster and the failure of
\* connections.  The task is spawned on the runtime, which polls it whenever
\* it can make a step: when the cancellation or a tick wakes it, and when the
\* ping it awaits returns.  That a ping returns (with a reply or an error)
\* is assumed of the connection.
PingerNext ==
    \/ \E a \in Addr : ChannelFail(a)
    \/ ClusterDrop
    \/ PingTick
    \/ PingStop
    \/ PingSend
    \/ PingDone
    \/ PingRoundEnd

SpecPinger ==
    /\ ClusterInit
    /\ [][PingerNext]_vars
    /\ WF_vars(PingStop)
    /\ WF_vars(PingSend)
    /\ WF_vars(PingDone)
    /\ WF_vars(PingRoundEnd)

----------------------------------------------------------------------------
(* SpecConnect: Cluster::init, Members::from and Member::connect           *)
(* (cluster.rs, member.rs), one seed endpoint after the other              *)

AUTHENTICATION_RESPONSE_MESSAGE_TYPE == 107
EXCEPTION_MESSAGE_TYPE == 109
PING_RESPONSE_MESSAGE_TYPE == 100

\* The first byte of an authentication response.
Statuses == {0, 1, 2, 3, 255}
\* What a peer may answer the authentication request with.
ReplyTypes == {AUTHENTICATION_RESPONSE_MESSAGE_TYPE, EXCEPTION_MESSAGE_TYPE,
               PING_RESPONSE_MESSAGE_TYPE}

\* Each request after the authentication is written at most MaxWire - 2 times.
MaxWire == 3

\* Readable::read_bool on the first byte: failure is read_u8() > 0.
AuthenticationFailureOnlyOne(status) == status = 1
AuthenticationFailure(status) == status > 0

\* TryFrom<R> for Message: the response when the type is the expected one,
\* a server failure when it is the exception type; any other type fails the
\* assertion.
TryFromDecodingException(type, expected) ==
    IF type = expected \/ type = EXCEPTION_MESSAGE_TYPE THEN "Ok" ELSE "panic"
TryFrom(type, expected) ==
    IF type = expected THEN "Ok"
    ELSE IF type = EXCEPTION_MESSAGE_TYPE THEN "ServerFailure"
    ELSE "panic"

\* TryFrom<AuthenticationResponse> for Message
TryFromAuthentication(type) == TryFrom(type, AUTHENTICATION_RESPONSE_MESSAGE_TYPE)

\* Member::connect after the reply: Ok(Member) or the error.
MemberConnectResult(type, status) ==
    IF TryFromAuthentication(type) # "Ok" THEN TryFromAuthentication(type)
    ELSE IF AuthenticationFailure(status) THEN "InvalidCredentials"
    ELSE "Ok"

\* An error of HazelcastClientError, with what it carries.
Error(kind) == [kind |-> kind, detail |-> "none"]

\* AuthenticationResponse::status (messaging/authentication.rs): the name of
\* the status byte; an unknown byte panics.
AuthenticationStatus(status) ==
    CASE status = 0 -> "Authenticated"
      [] status = 1 -> "CredentialsFailed"
      [] status = 2 -> "SerializationVersionMismatch"
      [] status = 3 -> "NotAllowedInCluster"
      [] OTHER -> "panic"

\* The Err Member::connect returns (member.rs:44 and the ? of line 42).
MemberConnectError(type, status) == Error(MemberConnectResult(type, status))

ConnectInit ==
    /\ pending \in SUBSET Addr
    /\ connPc = "next"
    /\ connCur = NoAddr
    /\ connected = [a \in Addr |-> NoMember]
    /\ disconnected = {}
    /\ wire = [a \in Addr |-> <<>>]
    /\ authStatus = [a \in Addr |-> NoStatus]
    /\ created = {}
    /\ connErr = [a \in Addr |-> NoError]
    /\ vec = <<>>
    /\ map = [a \in Addr |-> NoMember]
    /\ disabled = {}
    /\ sequencer = 0
    /\ reg = <<>>
    /\ selections = <<>>
    /\ disableDone = {}
    /\ disableCalls = [a \in Addr |-> "never"]
    /\ ClusterIdle
    /\ ChannelIdle
    /\ CounterIdle
    /\ FrameIdle
    /\ CorrelatorIdle
    /\ CodecIdle

\* for endpoint in endpoints...collect::<HashSet<_>>(): any order.
FromNext(endpoint) ==
    /\ connPc = "next"
    /\ endpoint \in pending
    /\ pending' = pending \ {endpoint}
    /\ connCur' = endpoint
    /\ connPc' = "dial"
    /\ UNCHANGED <<connected, disconnected, wire, authStatus, created, connErr>>
    /\ UNCHANGED <<registryVars, histVars, clusterVars, chanVars, cntVars, frameVars,
                   correlatorVars, codecVars>>

\* Members::from, the Err arm: the endpoint is remembered as disconnected.
FromErr(e) ==
    /\ connErr' = [connErr EXCEPT ![connCur] = e]
    /\ disconnected' = disconnected \cup {connCur}
    /\ connCur' = NoAddr
    /\ connPc' = "next"
    /\ UNCHANGED <<pending, connected, created>>

\* What a socket is given: raw bytes, or a length-delimited frame (named by
\* the message it carries).
PROTOCOL_SEQUENCE == <<67, 66, 50>>
Raw(bytes) == [framed |-> FALSE, bytes |-> bytes, message |-> "none"]
Framed(message) == [framed |-> TRUE, bytes |-> <<>>, message |-> message]

\* stream.write_all(&PROTOCOL_SEQUENCE) on the stream TcpStream::connect
\* returned, before the stream is split and framed.
StreamWriteAllNothing(written_so_far, bytes) == written_so_far
StreamWriteAll(written_so_far, bytes) == Append(written_so_far, Raw(bytes))

\* Channel::connect: TcpStream::connect and the protocol sequence.
ChannelConnectOk ==
    /\ connPc = "dial"
    /\ wire' = [wire EXCEPT ![connCur] = StreamWriteAll(@, PROTOCOL_SEQUENCE)]
    /\ connPc' = "authenticate"
    /\ UNCHANGED <<pending, connCur, connected, disconnected, authStatus, created, connErr>>
    /\ UNCHANGED <<registryVars, histVars, clusterVars, chanVars, cntVars, frameVars,
                   correlatorVars, codecVars>>

ChannelConnectErr ==
    /\ connPc = "dial"
    /\ FromErr(Error("CommunicationFailure"))
    /\ UNCHANGED <<wire, authStatus>>
    /\ UNCHANGED <<registryVars, histVars, clusterVars, chanVars, cntVars, frameVars,
                   correlatorVars, codecVars>>

\* Member::connect: channel.send of the AuthenticationRequest.
AuthenticationSend ==
    /\ connPc = "authenticate"
    /\ wire' = [wire EXCEPT ![connCur] = Append(@, Framed("authentication"))]
    /\ connPc' = "reply"
    /\ UNCHANGED <<pending, connCur, connected, disconnected, authStatus, created, connErr>>
    /\ UNCHANGED <<registryVars, histVars, clusterVars, chanVars, cntVars, frameVars,
                   correlatorVars, codecVars>>

\* The channel fails before the reply: Err(CommunicationFailure).
AuthenticationErr ==
    /\ connPc = "reply"
    /\ FromErr(Error("CommunicationFailure"))
    /\ UNCHANGED <<wire, authStatus>>
    /\ UNCHANGED <<registryVars, histVars, clusterVars, chanVars, cntVars, frameVars,
                   correlatorVars, codecVars>>

\* The reply arrives: Member::connect matches on it and Members::from inserts
\* the member under its reported address (replacing the one that was there)
\* or remembers the endpoint as disconnected.
AuthenticationReply(type, status, address) ==
    /\ connPc = "reply"
    /\ authStatus' = [authStatus EXCEPT ![connCur] =
                         IF TryFromAuthentication(type) = "Ok" THEN status ELSE @]
    /\ IF MemberConnectResult(type, status) = "Ok"
       THEN /\ connected' = [connected EXCEPT ![address] = MemberOf(address, connCur)]
            /\ created' = created \cup {connCur}
            /\ connCur' = NoAddr
            /\ connPc' = "next"
            /\ UNCHANGED <<pending, disconnected, connErr>>
       ELSE IF MemberConnectResult(type, status) = "panic"
            THEN /\ connPc' = "panic"
                 /\ UNCHANGED <<pending, connCur, connected, disconnected,
                                created, connErr>>
            ELSE FromErr(MemberConnectError(type, status))
    /\ UNCHANGED wire
    /\ UNCHANGED <<registryVars, histVars, clusterVars, chanVars, cntVars, frameVars,
                   correlatorVars, codecVars>>

\* Members::from returns Ok(Members { Registry::new(connected, disconnected) })
\* and Cluster::init returns Ok(Cluster).
ClusterInitResult(c) == "done"
FromDone ==
    /\ connPc = "next"
    /\ pending = {}
    /\ connPc' = ClusterInitResult(connected)
    /\ \E order \in Orders({a \in Addr : connected[a] # NoMember}) :
          /\ vec' = RegistryNewVec(connected, order)
          /\ map' = RegistryNewMap(RegistryNewVec(connected, order))
    /\ disabled' = disconnected
    /\ sequencer' = 0
    /\ UNCHANGED <<pending, connCur, connected, disconnected, wire, authStatus, created, connErr>>
    /\ UNCHANGED <<histVars, clusterVars, chanVars, cntVars, frameVars,
                   correlatorVars, codecVars>>

\* A member of the cluster sends a request (a ping, a counter operation).
MemberRequest(i) ==
    /\ connPc = "done"
    /\ i \in DOMAIN vec
    /\ Len(wire[vec[i][2].endpoint]) < MaxWire
    /\ wire' = [wire EXCEPT ![vec[i][2].endpoint] = Append(@, Framed("request"))]
    /\ UNCHANGED <<pending, connPc, connCur, connected, disconnected, authStatus, created, connErr>>
    /\ UNCHANGED <<registryVars, histVars, clusterVars, chanVars, cntVars, frameVars,
                   correlatorVars, codecVars>>

ConnectNext ==
    \/ \E endpoint \in Addr : FromNext(endpoint)
    \/ ChannelConnectOk
    \/ ChannelConnectErr
    \/ AuthenticationSend
    \/ AuthenticationErr
    \/ \E type \in ReplyTypes : \E status \in Statuses : \E address \in Addr :
          AuthenticationReply(type, status, address)
    \/ FromDone
    \/ \E i \in 1..Cardinality(Addr) : MemberRequest(i)

SpecConnect == ConnectInit /\ [][ConnectNext]_vars

----------------------------------------------------------------------------
(* SpecChannel: Channel::send, the channel task and its Broker             *)
(* (channel.rs), with a peer that answers each request it has read once,   *)
(* in any order                                                            *)

outsideChannel == <<registryVars, histVars, clusterVars, connVars, cntVars,
                    frameVars, correlatorVars, codecVars>>

\* MessageCodec::encode puts the correlation id into the frame next to the
\* payload; MessageCodec::decode reads both back.
MessageCodecEncode(message, correlation_id) ==
    [correlation_id |-> correlation_id, body |-> message]
MessageCodecDecode(frame) == <<frame.body, frame.correlation_id>>

\* The peer's reply to a request frame: the request's correlation id and a
\* payload that depends on the request's payload.
ReplyTo(frame) ==
    [correlation_id |-> frame.correlation_id, body |-> <<"reply", frame.body>>]

Outstanding(corr) == {id \in DOMAIN corr : corr[id] # NoCaller}
Oldest(corr) == CHOOSE id \in Outstanding(corr) : \A o \in Outstanding(corr) : id <= o

\* correlations.remove(&correlation_id): the responder stored under the id,
\* NoCaller when there is none.
CorrelationsRemoveOldest(corr, correlation_id) ==
    IF Outstanding(corr) = {} THEN NoCaller ELSE corr[Oldest(corr)]
CorrelationsRemove(corr, correlation_id) ==
    IF correlation_id \in DOMAIN corr THEN corr[correlation_id] ELSE NoCaller

\* correlations.remove(&correlation_id): the table it leaves behind.
CorrelationsRetained(corr, correlation_id) == corr
CorrelationsRemoved(corr, correlation_id) ==
    [id \in DOMAIN corr |-> IF id = correlation_id THEN NoCaller ELSE corr[id]]

\* receiver.await? with the responder dropped: the oneshot's RecvError
Failed == [kind |-> "error", correlation_id |-> 0, body |-> "none"]
\* self.egress.send(..)? with the task's receiver dropped: the SendError
Closed == [kind |-> "error", correlation_id |-> 0, body |-> "closed"]

\* UnboundedSender::send: Err when the receiving half is gone.
EgressSendNeverFails(pc) == "Ok"
EgressSend(pc) == IF pc = "dead" THEN "Err" ELSE "Ok"

\* Channel::send, line 84: the caller takes the next correlation id.
SendSequence(c) ==
    /\ sendPc[c] = "idle"
    /\ sendId' = [sendId EXCEPT ![c] = sequence]
    /\ sequence' = sequence + 1
    /\ sendPc' = [sendPc EXCEPT ![c] = "encoded"]
    /\ UNCHANGED <<egress, correlations, taskPc, taskFrame, received, ingress,
                   sendResult, written, arrived>>
    /\ UNCHANGED <<deliveries, outsideChannel>>

\* Channel::send, lines 85-88: encode, enqueue and wait; the enqueue fails
\* when the task is gone.
SendEnqueue(c) ==
    /\ sendPc[c] = "encoded"
    /\ IF EgressSend(taskPc) = "Err"
       THEN /\ sendPc' = [sendPc EXCEPT ![c] = "done"]
            /\ sendResult' = [sendResult EXCEPT ![c] = Closed]
            /\ UNCHANGED egress
       ELSE /\ egress' = Append(egress,
                            [frame |-> MessageCodecEncode(c, sendId[c]),
                             correlation_id |-> sendId[c],
                             responder |-> c])
            /\ sendPc' = [sendPc EXCEPT ![c] = "waiting"]
            /\ UNCHANGED sendResult
    /\ UNCHANGED <<sequence, sendId, correlations, taskPc, taskFrame, received,
                   ingress, written, arrived>>
    /\ UNCHANGED <<deliveries, outsideChannel>>

\* Broker::poll_next: the egress queue is polled first.
TaskEgress ==
    /\ taskPc = "next"
    /\ egress # <<>>
    /\ taskFrame' = Head(egress)
    /\ egress' = Tail(egress)
    /\ taskPc' = "write"
    /\ UNCHANGED <<sequence, correlations, received, ingress, sendPc, sendId,
                   sendResult, written, arrived>>
    /\ UNCHANGED <<deliveries, outsideChannel>>

\* writer.write(frame).await succeeded: the peer has the frame.
TaskWrite ==
    /\ taskPc = "write"
    /\ received' = received \cup {taskFrame.frame}
    /\ written' = Append(written, taskFrame.frame.correlation_id)
    /\ taskPc' = "insert"
    /\ UNCHANGED <<sequence, egress, correlations, taskFrame, ingress, sendPc,
                   sendId, sendResult, arrived>>
    /\ UNCHANGED <<deliveries, outsideChannel>>

\* correlations.insert(correlation_id, responder)
TaskInsert ==
    /\ taskPc = "insert"
    /\ correlations' = [correlations EXCEPT ![taskFrame.correlation_id] =
                           taskFrame.responder]
    /\ taskFrame' = NoEvent
    /\ taskPc' = "next"
    /\ UNCHANGED <<sequence, egress, received, ingress, sendPc, sendId,
                   sendResult, written, arrived>>
    /\ UNCHANGED <<deliveries, outsideChannel>>

\* The task ends (an I/O error, the end of the stream, a panic): the queue,
\* the event in hand and the table are dropped with their responders, so
\* every waiting caller's receiver fails.
TaskEndsKeepingTable ==
    /\ taskPc' = "dead"
    /\ egress' = <<>>
    /\ taskFrame' = NoEvent
    /\ correlations' = correlations
    /\ sendPc' = [c \in Callers |->
                     IF sendPc[c] = "waiting" /\ \A id \in DOMAIN correlations :
                                                    correlations[id] # c
                     THEN "done" ELSE sendPc[c]]
    /\ sendResult' = [c \in Callers |->
                         IF sendPc[c] = "waiting" /\ \A id \in DOMAIN correlations :
                                                        correlations[id] # c
                         THEN Failed ELSE sendResult[c]]
TaskEnds ==
    /\ taskPc' = "dead"
    /\ egress' = <<>>
    /\ taskFrame' = NoEvent
    /\ correlations' = [id \in DOMAIN correlations |-> NoCaller]
    /\ sendPc' = [c \in Callers |-> IF sendPc[c] = "waiting" THEN "done" ELSE sendPc[c]]
    /\ sendResult' = [c \in Callers |->
                         IF sendPc[c] = "waiting" THEN Failed ELSE sendResult[c]]

\* writer.write(frame).await? with an error
TaskWriteErr ==
    /\ taskPc = "write"
    /\ TaskEnds
    /\ UNCHANGED <<sequence, received, ingress, sendId, written, arrived>>
    /\ UNCHANGED <<deliveries, outsideChannel>>

\* Broker::poll_next yields Some(Err(e)) or None from the ingress stream.
TaskReadErr ==
    /\ taskPc = "next"
    /\ egress = <<>>
    /\ TaskEnds
    /\ UNCHANGED <<sequence, received, ingress, sendId, written, arrived>>
    /\ UNCHANGED <<deliveries, outsideChannel>>

\* oneshot::Sender::send: Err(message) when the receiver was dropped.
\* the message lost: the responder dropped without a send
ResponderSendLost(pc) == "Err"
ResponderSend(pc) == IF pc = "dropped" THEN "Err" ELSE "Ok"

\* match ....send(message) { _ => {} }: the result of the send is ignored.
IngressAfterSendUnwrap(result) == IF result = "Err" THEN "end" ELSE "continue"
IngressAfterSend(result) == "continue"

\* Event::Ingress: decode, remove the responder stored under the frame's
\* correlation id and hand it the message; expect() panics when none is.
TaskIngress ==
    /\ taskPc = "next"
    /\ egress = <<>>
    /\ ingress # <<>>
    /\ ingress' = Tail(ingress)
    /\ LET message == MessageCodecDecode(Head(ingress))[1]
           correlation_id == MessageCodecDecode(Head(ingress))[2]
           responder == CorrelationsRemove(correlations, correlation_id)
       IN IF responder = NoCaller
          THEN TaskEnds /\ UNCHANGED deliveries
          ELSE IF IngressAfterSend(ResponderSend(sendPc[responder])) = "end"
          THEN TaskEnds /\ UNCHANGED deliveries
          ELSE /\ correlations' = CorrelationsRemoved(correlations, correlation_id)
               /\ IF ResponderSend(sendPc[responder]) = "Ok"
                  THEN /\ sendResult' = [sendResult EXCEPT ![responder] =
                                            [kind |-> "message",
                                             correlation_id |-> correlation_id,
                                             body |-> message]]
                       /\ sendPc' = [sendPc EXCEPT ![responder] = "done"]
                       /\ deliveries' = [deliveries EXCEPT ![responder] = @ + 1]
                  ELSE UNCHANGED <<sendResult, sendPc, deliveries>>
               /\ UNCHANGED <<egress, taskPc, taskFrame>>
    /\ UNCHANGED <<sequence, received, sendId, written, arrived>>
    /\ UNCHANGED outsideChannel

\* The caller drops the future of Channel::send while it waits for the
\* reply: its oneshot receiver is dropped with it.
SendDrop(c) ==
    /\ sendPc[c] = "waiting"
    /\ sendPc' = [sendPc EXCEPT ![c] = "dropped"]
    /\ UNCHANGED <<sequence, egress, correlations, taskPc, taskFrame, received,
                   ingress, sendId, sendResult, written, arrived>>
    /\ UNCHANGED <<deliveries, outsideChannel>>

\* A correlation id no request of the channel was given.
UnknownId == Cardinality(Callers) + 1

\* A misbehaving peer sends, once, a frame under an id that has no slot.
PeerSpurious ==
    /\ taskPc # "dead"
    /\ UnknownId \notin SeqToSet(arrived)
    /\ Cardinality(SeqToSet(arrived)) = Len(arrived)
    /\ ingress' = Append(ingress, [correlation_id |-> UnknownId,
                                   body |-> <<"reply", NoCaller>>])
    /\ arrived' = Append(arrived, UnknownId)
    /\ UNCHANGED <<sequence, egress, correlations, taskPc, taskFrame, received,
                   sendPc, sendId, sendResult, written>>
    /\ UNCHANGED <<deliveries, outsideChannel>>

\* A misbehaving peer sends a second frame under an id it has already
\* answered (the peer of the model misbehaves once).
PeerDuplicate(frame) ==
    /\ taskPc # "dead"
    /\ frame.correlation_id \in SeqToSet(arrived)
    /\ UnknownId \notin SeqToSet(arrived)
    /\ Cardinality(SeqToSet(arrived)) = Len(arrived)
    /\ ingress' = Append(ingress, frame)
    /\ arrived' = Append(arrived, frame.correlation_id)
    /\ UNCHANGED <<sequence, egress, correlations, taskPc, taskFrame, received,
                   sendPc, sendId, sendResult, written>>
    /\ UNCHANGED <<deliveries, outsideChannel>>

\* The peer answers one of the requests it has read.
PeerReply(frame) ==
    /\ frame \in received
    /\ received' = received \ {frame}
    /\ ingress' = Append(ingress, ReplyTo(frame))
    /\ arrived' = Append(arrived, frame.correlation_id)
    /\ UNCHANGED <<sequence, egress, correlations, taskPc, taskFrame, sendPc,
                   sendId, sendResult, written>>
    /\ UNCHANGED <<deliveries, outsideChannel>>

ChannelInit ==
    /\ ChannelIdle
    /\ RegistryInit
    /\ disabled = Addr \ Keys(vec)
    /\ Len(vec) = Cardinality(Addr)
    /\ vec[1][1] = "a1" /\ vec[2][1] = "a2"
    /\ ClusterIdle
    /\ ConnectIdle
    /\ CounterIdle
    /\ FrameIdle
    /\ CorrelatorIdle
    /\ CodecIdle

ChannelNext ==
    \/ \E c \in Callers : SendSequence(c)
    \/ \E c \in Callers : SendEnqueue(c)
    \/ TaskEgress
    \/ TaskWrite
    \/ TaskInsert
    \/ TaskWriteErr
    \/ TaskReadErr
    \/ TaskIngress
    \/ \E frame \in received : PeerReply(frame)
    \/ \E c \in Callers : SendDrop(c)
    \/ PeerSpurious
    \/ \E c \in Callers : PeerDuplicate(ReplyTo(MessageCodecEncode(c, sendId[c])))

SpecChannel == ChannelInit /\ [][ChannelNext]_vars

\* The channel with its scheduling: the runtime polls the task whenever an
\* event is ready for it, a write that was begun ends (done or failed), a
\* caller that has its id goes on to the enqueue, and the peer answers what
\* it has read.  Nothing is assumed of the connection staying up.
ChannelFairness ==
    /\ WF_vars(TaskEgress)
    /\ WF_vars(TaskWrite \/ TaskWriteErr)
    /\ WF_vars(TaskInsert)
    /\ WF_vars(TaskIngress)
    /\ \A c \in Callers : WF_vars(SendEnqueue(c))
    /\ WF_vars(\E frame \in received : PeerReply(frame))

\* with callers that may abandon a send
SpecChannelFairAll == ChannelInit /\ [][ChannelNext]_vars /\ ChannelFairness

\* The steps of the channel when every caller awaits its send to the end.
ChannelAwaitedNext ==
    \/ \E c \in Callers : SendSequence(c)
    \/ \E c \in Callers : SendEnqueue(c)
    \/ TaskEgress
    \/ TaskWrite
    \/ TaskInsert
    \/ TaskWriteErr
    \/ TaskReadErr
    \/ TaskIngress
    \/ \E frame \in received : PeerReply(frame)
    \/ PeerSpurious
    \/ \E c \in Callers : PeerDuplicate(ReplyTo(MessageCodecEncode(c, sendId[c])))

SpecChannelFair == ChannelInit /\ [][ChannelAwaitedNext]_vars /\ ChannelFairness

----------------------------------------------------------------------------
(* SpecCounter: one PnCounter handle (protocol/pn_counter.rs) over         *)
(* Cluster::dispatch and Member::send, with a peer that may answer a        *)
(* request with any message                                                *)

GET_REQUEST_MESSAGE_TYPE == 8193
GET_RESPONSE_MESSAGE_TYPE == 127
ADD_REQUEST_MESSAGE_TYPE == 8194
ADD_RESPONSE_MESSAGE_TYPE == 127
GET_REPLICA_COUNT_REQUEST_MESSAGE_TYPE == 8195
GET_REPLICA_COUNT_RESPONSE_MESSAGE_TYPE == 102

\* The handle runs at most MaxOps operations.
MaxOps == 3

CounterName == "counter-name"
Values == {0, 12}
Deltas == {-1, 2}
Exceptions == {"NullPointerException"}
\* Vec<ReplicaTimestampEntry>: (key, value) entries
Vectors == {<<>>, <<<<"r1", 7>>>>, <<<<"r1", 8>>, <<"r2", 3>>>>}

outsideCounter == <<registryVars, histVars, clusterVars, connVars, chanVars,
                    frameVars, correlatorVars, codecVars>>

\* The messages the peer may answer with: a get/add response, a replica
\* count response, an exception, a ping response.
CounterReplies ==
    {[type |-> GET_RESPONSE_MESSAGE_TYPE, value |-> v, replica_timestamps |-> t,
      exception |-> "none"] : v \in Values, t \in Vectors}
    \cup {[type |-> GET_REPLICA_COUNT_RESPONSE_MESSAGE_TYPE, value |-> v,
           replica_timestamps |-> <<>>, exception |-> "none"] : v \in Values}
    \cup {[type |-> EXCEPTION_MESSAGE_TYPE, value |-> NoValue,
           replica_timestamps |-> <<>>, exception |-> e] : e \in Exceptions}
    \cup {[type |-> PING_RESPONSE_MESSAGE_TYPE, value |-> NoValue,
           replica_timestamps |-> <<>>, exception |-> "none"]}

\* PnCounterGetRequest::new
PnCounterGetRequestNew(name, timestamps, address) ==
    [type |-> GET_REQUEST_MESSAGE_TYPE,
     payload |-> [name |-> name, replica_timestamps |-> timestamps,
                  address |-> address]]

\* PnCounterAddRequest::new
PnCounterAddRequestNewFlipped(name, delta, get_before_update, timestamps, address) ==
    [type |-> ADD_REQUEST_MESSAGE_TYPE,
     payload |-> [name |-> name, delta |-> delta,
                  get_before_update |-> ~get_before_update,
                  replica_timestamps |-> timestamps, address |-> address]]
PnCounterAddRequestNew(name, delta, get_before_update, timestamps, address) ==
    [type |-> ADD_REQUEST_MESSAGE_TYPE,
     payload |-> [name |-> name, delta |-> delta,
                  get_before_update |-> get_before_update,
                  replica_timestamps |-> timestamps, address |-> address]]

\* PnCounterGetReplicaCountRequest::new
PnCounterGetReplicaCountRequestNew(name) ==
    [type |-> GET_REPLICA_COUNT_REQUEST_MESSAGE_TYPE, payload |-> [name |-> name]]

\* R::r#type() of the response each operation asks Cluster::dispatch for.
ExpectedType(op) ==
    CASE op = "get" -> GET_RESPONSE_MESSAGE_TYPE
      [] op \in {"get_and_add", "add_and_get"} -> ADD_RESPONSE_MESSAGE_TYPE
      [] op = "replica_count" -> GET_REPLICA_COUNT_RESPONSE_MESSAGE_TYPE

\* What the operation does to the stored vector on Ok(response):
\* self.replica_timestamps = response.replica_timestamps().to_vec() in get
\* and add, nothing in replica_count.
PnCounterStoreKeeping(op, stored, resp) == stored
PnCounterStoreAlways(op, stored, resp) == resp.replica_timestamps
PnCounterStore(op, stored, resp) ==
    IF op = "replica_count" THEN stored ELSE resp.replica_timestamps

\* Ok(response.value()), Ok(response.count())
PnCounterValue(op, resp) == resp.value

Panicked(message) == [kind |-> "panic", value |-> NoValue, detail |-> message]

\* The first lines of every operation: count it, remember the stored vector.
CounterCall(op, delta) ==
    /\ counterPc = "idle"
    /\ operations < MaxOps
    /\ operations' = operations + 1
    /\ before' = replica_timestamps
    /\ counterOp' = [op |-> op, delta |-> delta]
    /\ UNCHANGED <<replica_timestamps, response, lastVector>>
    /\ UNCHANGED outsideCounter

\* PnCounter::get up to the dispatch: expect() panics on a missing address.
CounterGet(address) ==
    /\ CounterCall("get", 0)
    /\ IF address = NoAddr
       THEN /\ counterPc' = "panic"
            /\ counterRet' = Panicked("missing address!")
            /\ dispatches' = 0
            /\ UNCHANGED request
       ELSE /\ request' = PnCounterGetRequestNew(CounterName, replica_timestamps, address)
            /\ counterPc' = "wait"
            /\ counterRet' = NoCounterRet
            /\ dispatches' = 1

\* PnCounter::add up to the dispatch
CounterAdd(op, delta, get_before_update, address) ==
    /\ CounterCall(op, delta)
    /\ IF address = NoAddr
       THEN /\ counterPc' = "panic"
            /\ counterRet' = Panicked("missing address!")
            /\ dispatches' = 0
            /\ UNCHANGED request
       ELSE /\ request' = PnCounterAddRequestNew(CounterName, delta, get_before_update,
                                                 replica_timestamps, address)
            /\ counterPc' = "wait"
            /\ counterRet' = NoCounterRet
            /\ dispatches' = 1

\* PnCounter::get_and_add
CounterGetAndAdd(delta, address) == CounterAdd("get_and_add", delta, TRUE, address)

\* PnCounter::add_and_get
CounterAddAndGet(delta, address) == CounterAdd("add_and_get", delta, FALSE, address)

\* PnCounter::replica_count up to the dispatch
CounterReplicaCount ==
    /\ CounterCall("replica_count", 0)
    /\ request' = PnCounterGetReplicaCountRequestNew(CounterName)
    /\ counterPc' = "wait"
    /\ counterRet' = NoCounterRet
    /\ dispatches' = 1

\* Cluster::dispatch returns Err without a reply: no member is enabled, or
\* Member::send maps the channel's error; the ? returns it to the caller.
\* dispatch once more on a communication failure, in place of the ?
QuestionMarkRetry(kind) ==
    IF kind = "CommunicationFailure" THEN "retry" ELSE "return"
\* The ? after dispatch(request).await: an Err is returned from the operation.
QuestionMark(kind) == "return"
CounterDispatchErr(kind) ==
    /\ counterPc = "wait"
    /\ IF QuestionMark(kind) = "return"
       THEN /\ counterRet' = [kind |-> kind, value |-> NoValue, detail |-> "none"]
            /\ counterPc' = "idle"
            /\ UNCHANGED dispatches
       ELSE /\ dispatches < MaxOps
            /\ dispatches' = dispatches + 1
            /\ UNCHANGED <<counterRet, counterPc>>
    /\ UNCHANGED <<replica_timestamps, counterOp, request, response, lastVector,
                   before, operations>>
    /\ UNCHANGED outsideCounter

\* A reply arrives: Member::send converts it with TryFrom and the operation
\* goes on with the result.
CounterReply(resp) ==
    /\ counterPc = "wait"
    /\ response' = resp
    /\ LET result == TryFrom(resp.type, ExpectedType(counterOp.op))
       IN CASE result = "Ok" ->
                 /\ replica_timestamps' =
                        PnCounterStore(counterOp.op, replica_timestamps, resp)
                 /\ lastVector' = IF counterOp.op = "replica_count"
                                  THEN lastVector ELSE resp.replica_timestamps
                 /\ counterRet' = [kind |-> "Ok",
                                   value |-> PnCounterValue(counterOp.op, resp),
                                   detail |-> "none"]
                 /\ counterPc' = "idle"
            [] result = "ServerFailure" ->
                 /\ counterRet' = [kind |-> "ServerFailure", value |-> NoValue,
                                   detail |-> resp.exception]
                 /\ counterPc' = "idle"
                 /\ UNCHANGED <<replica_timestamps, lastVector>>
            [] result = "panic" ->
                 /\ counterRet' = Panicked("unknown messaging type")
                 /\ counterPc' = "panic"
                 /\ UNCHANGED <<replica_timestamps, lastVector>>
    /\ UNCHANGED <<counterOp, request, before, operations, dispatches>>
    /\ UNCHANGED outsideCounter

CounterInit ==
    /\ CounterIdle
    /\ RegistryInit
    /\ disabled = Addr \ Keys(vec)
    /\ Len(vec) = Cardinality(Addr)
    /\ vec[1][1] = "a1" /\ vec[2][1] = "a2"
    /\ ClusterIdle
    /\ ConnectIdle
    /\ ChannelIdle
    /\ FrameIdle
    /\ CorrelatorIdle
    /\ CodecIdle

CounterNext ==
    \/ \E address \in Addr \cup {NoAddr} : CounterGet(address)
    \/ \E delta \in Deltas : \E address \in Addr \cup {NoAddr} :
          CounterGetAndAdd(delta, address)
    \/ \E delta \in Deltas : \E address \in Addr \cup {NoAddr} :
          CounterAddAndGet(delta, address)
    \/ CounterReplicaCount
    \/ \E kind \in {"ClusterNonOperational", "CommunicationFailure"} :
          CounterDispatchErr(kind)
    \/ \E resp \in CounterReplies : CounterReply(resp)

SpecCounter == CounterInit /\ [][CounterNext]_vars

----------------------------------------------------------------------------
(* SpecFrame: FrameCodec::encode and FrameCodec::decode (remote/mod.rs)    *)
(* over the byte writers and readers of bytes/mod.rs; a frame is the        *)
(* sequence of its bytes, without the length prefix the framing adds        *)

PROTOCOL_VERSION == 1
BEGIN_MESSAGE == 128
END_MESSAGE == 64
\* BEGIN_MESSAGE | END_MESSAGE: the two bits are distinct
UNFRAGMENTED_MESSAGE == BEGIN_MESSAGE + END_MESSAGE
HEADER_LENGTH == 22

outsideFrame == <<registryVars, histVars, clusterVars, connVars, chanVars, cntVars,
                  correlatorVars, codecVars>>

MessageTypes == {1, 127, 8193}
PartitionIds == {-1, 0, 2}
Payloads == {<<>>, <<3>>, <<255, 0>>}
CorrelationIds == {1, 13, 256, 305419896}

\* put_u16_le, put_i32_le, put_u64_le: the n low bytes, lowest first (a
\* negative value in two's complement).
RECURSIVE LittleEndian(_, _)
LittleEndian(value, n) ==
    IF n = 0 THEN <<>>
    ELSE <<value % 256>> \o LittleEndian(value \div 256, n - 1)

RECURSIVE BigEndian(_, _)
BigEndian(value, n) ==
    IF n = 0 THEN <<>>
    ELSE BigEndian(value \div 256, n - 1) \o <<value % 256>>

WriteU8(value) == <<value>>
WriteU16BigEndian(value) == BigEndian(value, 2)
WriteU16(value) == LittleEndian(value, 2)
WriteI32(value) == LittleEndian(value, 4)
WriteU64(value) == LittleEndian(value, 8)
WriteSlice(value) == value

\* get_u16_le, get_u64_le over the bytes read
RECURSIVE ReadUnsigned(_)
ReadUnsigned(bytes) ==
    IF bytes = <<>> THEN 0 ELSE Head(bytes) + 256 * ReadUnsigned(Tail(bytes))

\* get_i32_le: the top byte carries the sign
ReadI32(bytes) ==
    ReadUnsigned(SubSeq(bytes, 1, 3))
    + 16777216 * (IF bytes[4] >= 128 THEN bytes[4] - 256 ELSE bytes[4])

\* FrameCodec::encode
FrameCodecEncode(message, correlation_id) ==
    WriteU8(PROTOCOL_VERSION)
    \o WriteU8(UNFRAGMENTED_MESSAGE)
    \o WriteU16(message.message_type)
    \o WriteU64(correlation_id)
    \o WriteI32(message.partition_id)
    \o WriteU16(HEADER_LENGTH)
    \o WriteSlice(message.payload)

\* FrameCodec::decode; a read past the end of the frame panics, and so does
\* a data offset that skips past it or is below the header length.
FrameCodecDecode(frame) ==
    IF Len(frame) < HEADER_LENGTH - 4
    THEN [kind |-> "panic", message |-> NoMessage, correlation_id |-> 0]
    ELSE LET message_type == ReadUnsigned(SubSeq(frame, 3, 4))
             correlation_id == ReadUnsigned(SubSeq(frame, 5, 12))
             partition_id == ReadI32(SubSeq(frame, 13, 16))
             data_offset == ReadUnsigned(SubSeq(frame, 17, 18))
             rest == SubSeq(frame, 19, Len(frame))
         IN IF data_offset < HEADER_LENGTH \/ data_offset - HEADER_LENGTH > Len(rest)
            THEN [kind |-> "panic", message |-> NoMessage, correlation_id |-> 0]
            ELSE [kind |-> "Ok",
                  message |-> [message_type |-> message_type,
                               partition_id |-> partition_id,
                               payload |-> SubSeq(rest, data_offset - HEADER_LENGTH + 1,
                                                  Len(rest))],
                  correlation_id |-> correlation_id]

FrameGiven ==
    /\ frameMessage \in [message_type : MessageTypes, partition_id : PartitionIds,
                         payload : Payloads]
    /\ frameId \in CorrelationIds
    /\ frameBytes = <<>>
    /\ frameDecoded = NoDecoded
    /\ framePc = "given"

\* Another message and correlation id are handed to the codec.
FrameGive ==
    /\ framePc \in {"decoded", "handled"}
    /\ frameMessage' \in [message_type : MessageTypes, partition_id : PartitionIds,
                          payload : Payloads]
    /\ frameId' \in CorrelationIds
    /\ frameBytes' = <<>>
    /\ frameDecoded' = NoDecoded
    /\ framePc' = "given"
    /\ UNCHANGED outsideFrame

FrameEncode ==
    /\ framePc = "given"
    /\ frameBytes' = FrameCodecEncode(frameMessage, frameId)
    /\ framePc' = "encoded"
    /\ UNCHANGED <<frameMessage, frameId, frameDecoded>>
    /\ UNCHANGED outsideFrame

FrameDecode ==
    /\ framePc = "encoded"
    /\ frameDecoded' = FrameCodecDecode(frameBytes)
    /\ framePc' = "decoded"
    /\ UNCHANGED <<frameMessage, frameId, frameBytes>>
    /\ UNCHANGED outsideFrame

\* The data offsets a peer may put into a frame's header, besides 22.
DataOffsets == {0, 21, 23, 24, 65535}

\* The data-offset field of a frame's header (read_u16 after 16 bytes).
DataOffset(frame) == ReadUnsigned(SubSeq(frame, 17, 18))

\* A frame arrives whose header carries another data offset than the one
\* FrameCodec::encode writes.
FrameCorrupt(data_offset) ==
    /\ framePc = "encoded"
    /\ frameBytes' = SubSeq(frameBytes, 1, 16) \o WriteU16(data_offset)
                         \o SubSeq(frameBytes, 19, Len(frameBytes))
    /\ framePc' = "corrupted"
    /\ UNCHANGED <<frameMessage, frameId, frameDecoded>>
    /\ UNCHANGED outsideFrame

\* FrameCodec::decode of that frame.
FrameDecodeCorrupted ==
    /\ framePc = "corrupted"
    /\ frameDecoded' = FrameCodecDecode(frameBytes)
    /\ framePc' = "handled"
    /\ UNCHANGED <<frameMessage, frameId, frameBytes>>
    /\ UNCHANGED outsideFrame

FrameInit ==
    /\ FrameGiven
    /\ RegistryInit
    /\ disabled = Addr \ Keys(vec)
    /\ Len(vec) = Cardinality(Addr)
    /\ vec[1][1] = "a1" /\ vec[2][1] = "a2"
    /\ ClusterIdle
    /\ ConnectIdle
    /\ ChannelIdle
    /\ CounterIdle
    /\ CorrelatorIdle
    /\ CodecIdle

FrameNext ==
    \/ FrameGive
    \/ FrameEncode
    \/ FrameDecode
    \/ \E data_offset \in DataOffsets : FrameCorrupt(data_offset)
    \/ FrameDecodeCorrupted

SpecFrame == FrameInit /\ [][FrameNext]_vars

----------------------------------------------------------------------------
(* SpecCorrelator: the Correlator of the legacy channel task               *)
(* (src/remote/mod.rs), its u64 sequence kept at its full width as four    *)
(* 16-bit limbs, lowest first                                              *)

outsideCorrelator == <<registryVars, histVars, clusterVars, connVars, chanVars,
                       cntVars, frameVars, codecVars>>

\* Correlator::set is called at most MaxCalls times, with at most
\* MaxInFlight ids in the table at a time.
MaxCalls == 66
MaxInFlight == 2

LimbBase == 65536
U64One == <<1, 0, 0, 0>>

\* x + y on u64: the wrapped sum and whether the addition overflowed.
U64Add(x, y) ==
    LET s1 == x[1] + y[1]
        s2 == x[2] + y[2] + (s1 \div LimbBase)
        s3 == x[3] + y[3] + (s2 \div LimbBase)
        s4 == x[4] + y[4] + (s3 \div LimbBase)
    IN  [value |-> <<s1 % LimbBase, s2 % LimbBase, s3 % LimbBase, s4 % LimbBase>>,
         overflow |-> s4 \div LimbBase > 0]

\* x < y on u64
U64Less(x, y) ==
    \E i \in 1..4 : x[i] < y[i] /\ \A j \in (i + 1)..4 : x[j] = y[j]

\* self.sequence += self.sequence + 1
CorrelatorNextSequence(sequence_now) ==
    LET inner == U64Add(sequence_now, U64One)
        outer == U64Add(sequence_now, inner.value)
    IN  [value |-> outer.value, overflow |-> inner.overflow \/ outer.overflow]

\* Correlator::set: where the arithmetic overflows, a build with overflow
\* checks panics and a build without them goes on with the wrapped value.
CorrelatorSet ==
    /\ correlatorPc = "ready"
    /\ Len(correlatorReturned) < MaxCalls
    /\ Cardinality(correlatorCorrelations) < MaxInFlight
    /\ LET next == CorrelatorNextSequence(correlatorSequence)
       IN \/ /\ next.overflow
             /\ correlatorPc' = "panic"
             /\ UNCHANGED <<correlatorSequence, correlatorCorrelations,
                            correlatorReturned, correlatorClash>>
          \/ /\ correlatorSequence' = next.value
             /\ correlatorCorrelations' = correlatorCorrelations \cup {next.value}
             /\ correlatorReturned' = Append(correlatorReturned, next.value)
             /\ correlatorClash' = (correlatorClash
                                       \/ next.value \in correlatorCorrelations)
             /\ UNCHANGED correlatorPc
    /\ UNCHANGED outsideCorrelator

\* Correlator::get: HashMap::remove
CorrelatorGet(id) ==
    /\ correlatorPc = "ready"
    /\ id \in correlatorCorrelations
    /\ correlatorCorrelations' = correlatorCorrelations \ {id}
    /\ UNCHANGED <<correlatorSequence, correlatorReturned, correlatorClash,
                   correlatorPc>>
    /\ UNCHANGED outsideCorrelator

CorrelatorInit ==
    /\ CorrelatorIdle
    /\ RegistryInit
    /\ disabled = Addr \ Keys(vec)
    /\ Len(vec) = Cardinality(Addr)
    /\ vec[1][1] = "a1" /\ vec[2][1] = "a2"
    /\ ClusterIdle
    /\ ConnectIdle
    /\ ChannelIdle
    /\ CounterIdle
    /\ FrameIdle
    /\ CodecIdle

CorrelatorNext ==
    \/ CorrelatorSet
    \/ \E id \in correlatorCorrelations : CorrelatorGet(id)

SpecCorrelator == CorrelatorInit /\ [][CorrelatorNext]_vars

----------------------------------------------------------------------------
(* SpecCodec: the Writer and Reader implementations (client/src/codec/     *)
(* mod.rs), the structs that derive them (client/src/protocol/mod.rs,      *)
(* macros/src/lib.rs) and a buffer whose first byte a peer may have set.   *)
(* A string is the sequence of its UTF-8 bytes, an Option is a sequence of *)
(* no or one value, a Vec a sequence.                                      *)

outsideCodec == <<registryVars, histVars, clusterVars, connVars, chanVars,
                  cntVars, frameVars, correlatorVars>>

OptionNone == <<>>
OptionSome(value) == <<value>>

Localhost == <<108, 111, 99, 97, 108, 104, 111, 115, 116>>
Key == <<107, 101, 121>>

\* The typed values handed to the codec.
CodecCases ==
    << [type |-> "bool", value |-> TRUE],
       [type |-> "bool", value |-> FALSE],
       [type |-> "u8", value |-> 0],
       [type |-> "u8", value |-> 255],
       [type |-> "u16", value |-> 1],
       [type |-> "u16", value |-> 65535],
       [type |-> "i32", value |-> -1],
       [type |-> "i32", value |-> 1],
       [type |-> "i32", value |-> -2147483647],
       [type |-> "u32", value |-> 0],
       [type |-> "u32", value |-> 5701],
       [type |-> "u32", value |-> 65536],
       [type |-> "i64", value |-> -1],
       [type |-> "i64", value |-> 69],
       [type |-> "i64", value |-> -4660],
       [type |-> "u64", value |-> 1],
       [type |-> "u64", value |-> 305419896],
       [type |-> "String", value |-> <<>>],
       [type |-> "String", value |-> <<49, 48>>],
       [type |-> "String", value |-> <<195, 169, 33>>],
       [type |-> "Option<u32>", value |-> OptionNone],
       [type |-> "Option<u32>", value |-> OptionSome(1)],
       [type |-> "Option<u32>", value |-> OptionSome(0)],
       [type |-> "Option<String>", value |-> OptionNone],
       [type |-> "Option<String>", value |-> OptionSome(<<>>)],
       [type |-> "Option<String>", value |-> OptionSome(<<49, 48>>)],
       [type |-> "Option<Address>", value |-> OptionNone],
       [type |-> "Option<Address>",
        value |-> OptionSome([host |-> Localhost, port |-> 5701])],
       [type |-> "Vec<u32>", value |-> <<>>],
       [type |-> "Vec<u32>", value |-> <<1>>],
       [type |-> "Vec<u32>", value |-> <<1, 0, 5701>>],
       [type |-> "Vec<ReplicaTimestampEntry>", value |-> <<>>],
       [type |-> "Vec<ReplicaTimestampEntry>",
        value |-> <<[key |-> Key, value |-> 69], [key |-> <<>>, value |-> -1]>>],
       [type |-> "Address", value |-> [host |-> Localhost, port |-> 5701]],
       [type |-> "Address", value |-> [host |-> <<>>, port |-> 0]],
       [type |-> "ReplicaTimestampEntry", value |-> [key |-> Key, value |-> 69]],
       [type |-> "ReplicaTimestampEntry", value |-> [key |-> Key, value |-> -1]] >>

\* What follows the value in the buffer.
CodecTails == {<<>>, <<7>>}

\* The first bytes a peer may put in place of the one written.
FirstBytes == {0, 1, 2, 255}

IsOption(type) == type \in {"Option<u32>", "Option<String>", "Option<Address>"}
IsVec(type) == type \in {"Vec<u32>", "Vec<ReplicaTimestampEntry>"}
ElementType(type) ==
    CASE type = "Option<u32>" -> "u32"
      [] type = "Option<String>" -> "String"
      [] type = "Option<Address>" -> "Address"
      [] type = "Vec<u32>" -> "u32"
      [] type = "Vec<ReplicaTimestampEntry>" -> "ReplicaTimestampEntry"

\* impl Writeable for BytesMut
WriteBool(value) == IF value THEN <<1>> ELSE <<0>>
WriteU32BigEndian(value) == BigEndian(value, 4)
WriteU32(value) == LittleEndian(value, 4)
WriteI64(value) == LittleEndian(value, 8)

\* impl Writer for Option<T>: the bool written in front, true.write_to for
\* None and false.write_to for Some.
WriterOptionFlagInverted(is_none) == ~is_none
WriterOptionFlag(is_none) == is_none

\* Writer::write_to; a struct writes its fields in the order of their
\* declaration.
RECURSIVE WriteTo(_, _)
RECURSIVE WriteItems(_, _)
WriteItems(type, items) ==
    IF items = <<>> THEN <<>>
    ELSE WriteTo(type, Head(items)) \o WriteItems(type, Tail(items))
WriteTo(type, value) ==
    CASE type = "bool" -> WriteBool(value)
      [] type = "u8" -> WriteU8(value)
      [] type = "u16" -> WriteU16(value)
      [] type = "i32" -> WriteI32(value)
      [] type = "u32" -> WriteU32(value)
      [] type = "i64" -> WriteI64(value)
      [] type = "u64" -> WriteU64(value)
      [] type = "String" -> WriteTo("u32", Len(value)) \o WriteSlice(value)
      [] IsOption(type) ->
            IF value = OptionNone
            THEN WriteTo("bool", WriterOptionFlag(TRUE))
            ELSE WriteTo("bool", WriterOptionFlag(FALSE))
                    \o WriteTo(ElementType(type), value[1])
      [] IsVec(type) ->
            WriteTo("u32", Len(value)) \o WriteItems(ElementType(type), value)
      [] type = "Address" ->
            WriteTo("String", value.host) \o WriteTo("u32", value.port)
      [] type = "ReplicaTimestampEntry" ->
            WriteTo("String", value.key) \o WriteTo("i64", value.value)

\* impl Readable for Bytes
ReadBool(byte) == byte > 0
\* get_i64_le: two's complement, a negative value read off its complement
ReadI64(bytes) ==
    IF bytes[8] >= 128
    THEN -1 - ReadUnsigned([i \in 1..8 |-> 255 - bytes[i]])
    ELSE ReadUnsigned(bytes)

\* std::str::from_utf8 accepts the bytes (for sequences of one and two
\* bytes, the ones the strings of the model are made of).
RECURSIVE Utf8(_)
Utf8(bytes) ==
    IF bytes = <<>> THEN TRUE
    ELSE IF bytes[1] < 128 THEN Utf8(Tail(bytes))
    ELSE /\ bytes[1] \in 194..223
         /\ Len(bytes) >= 2
         /\ bytes[2] \in 128..191
         /\ Utf8(Tail(Tail(bytes)))

\* What a read returns: the value and the bytes left, or a panic (a read
\* past the end of the buffer, bytes that are not UTF-8).
ReadOk(value, rest) == [kind |-> "Ok", value |-> value, rest |-> rest]
ReadPanic == [kind |-> "panic", value |-> 0, rest |-> <<>>]
Drop(bytes, n) == SubSeq(bytes, n + 1, Len(bytes))

\* Reader::read_from; a struct reads its fields in the order of their
\* declaration.
RECURSIVE ReadFrom(_, _)
RECURSIVE ReadItems(_, _, _, _)
ReadItems(type, len, items, bytes) ==
    IF len = 0 THEN ReadOk(items, bytes)
    ELSE LET item == ReadFrom(type, bytes)
         IN  IF item.kind # "Ok" THEN ReadPanic
             ELSE ReadItems(type, len - 1, Append(items, item.value), item.rest)
ReadFrom(type, bytes) ==
    CASE type = "bool" ->
            IF Len(bytes) < 1 THEN ReadPanic
            ELSE ReadOk(ReadBool(bytes[1]), Drop(bytes, 1))
      [] type = "u8" ->
            IF Len(bytes) < 1 THEN ReadPanic
            ELSE ReadOk(bytes[1], Drop(bytes, 1))
      [] type = "u16" ->
            IF Len(bytes) < 2 THEN ReadPanic
            ELSE ReadOk(ReadUnsigned(SubSeq(bytes, 1, 2)), Drop(bytes, 2))
      [] type = "i32" ->
            IF Len(bytes) < 4 THEN ReadPanic
            ELSE ReadOk(ReadI32(SubSeq(bytes, 1, 4)), Drop(bytes, 4))
      [] type = "u32" ->
            IF Len(bytes) < 4 THEN ReadPanic
            ELSE ReadOk(ReadUnsigned(SubSeq(bytes, 1, 4)), Drop(bytes, 4))
      [] type = "i64" ->
            IF Len(bytes) < 8 THEN ReadPanic
            ELSE ReadOk(ReadI64(SubSeq(bytes, 1, 8)), Drop(bytes, 8))
      [] type = "u64" ->
            IF Len(bytes) < 8 THEN ReadPanic
            ELSE ReadOk(ReadUnsigned(SubSeq(bytes, 1, 8)), Drop(bytes, 8))
      [] type = "String" ->
            LET len == ReadFrom("u32", bytes)
            IN  IF len.kind # "Ok" THEN ReadPanic
                ELSE IF Len(len.rest) < len.value THEN ReadPanic
                ELSE IF ~Utf8(SubSeq(len.rest, 1, len.value)) THEN ReadPanic
                ELSE ReadOk(SubSeq(len.rest, 1, len.value), Drop(len.rest, len.value))
      [] IsOption(type) ->
            LET flag == ReadFrom("bool", bytes)
            IN  IF flag.kind # "Ok" THEN ReadPanic
                ELSE IF ~flag.value
                THEN LET inner == ReadFrom(ElementType(type), flag.rest)
                     IN  IF inner.kind # "Ok" THEN ReadPanic
                         ELSE ReadOk(OptionSome(inner.value), inner.rest)
                ELSE ReadOk(OptionNone, flag.rest)
      [] IsVec(type) ->
            LET len == ReadFrom("u32", bytes)
            IN  IF len.kind # "Ok" THEN ReadPanic
                ELSE ReadItems(ElementType(type), len.value, <<>>, len.rest)
      [] type = "Address" ->
            LET host == ReadFrom("String", bytes)
            IN  IF host.kind # "Ok" THEN ReadPanic
                ELSE LET port == ReadFrom("u32", host.rest)
                     IN  IF port.kind # "Ok" THEN ReadPanic
                         ELSE ReadOk([host |-> host.value, port |-> port.value],
                                     port.rest)
      [] type = "ReplicaTimestampEntry" ->
            LET key == ReadFrom("String", bytes)
            IN  IF key.kind # "Ok" THEN ReadPanic
                ELSE LET value == ReadFrom("i64", key.rest)
                     IN  IF value.kind # "Ok" THEN ReadPanic
                         ELSE ReadOk([key |-> key.value, value |-> value.value],
                                     value.rest)

\* A value and the bytes that will follow it are chosen.
CodecGive ==
    /\ codecPc \in {"read", "handled"}
    /\ codecCase' \in DOMAIN CodecCases
    /\ codecTail' \in CodecTails
    /\ codecBytes' = <<>>
    /\ codecRead' = NoRead
    /\ codecPc' = "given"
    /\ UNCHANGED outsideCodec

\* value.write_to(writeable) on an empty BytesMut
CodecWrite ==
    /\ codecPc = "given"
    /\ codecBytes' = WriteTo(CodecCases[codecCase].type, CodecCases[codecCase].value)
    /\ codecPc' = "written"
    /\ UNCHANGED <<codecCase, codecTail, codecRead>>
    /\ UNCHANGED outsideCodec

\* T::read_from(readable) on the bytes written and what follows them
CodecReadFrom ==
    /\ codecPc = "written"
    /\ codecRead' = ReadFrom(CodecCases[codecCase].type, codecBytes \o codecTail)
    /\ codecPc' = "read"
    /\ UNCHANGED <<codecCase, codecTail, codecBytes>>
    /\ UNCHANGED outsideCodec

\* The buffer arrives with another first byte than the one written.
CodecTamper(byte) ==
    /\ codecPc = "written"
    /\ byte # codecBytes[1]
    /\ codecBytes' = [codecBytes EXCEPT ![1] = byte]
    /\ codecPc' = "tampered"
    /\ UNCHANGED <<codecCase, codecTail, codecRead>>
    /\ UNCHANGED outsideCodec

\* T::read_from(readable) on that buffer
CodecReadTampered ==
    /\ codecPc = "tampered"
    /\ codecRead' = ReadFrom(CodecCases[codecCase].type, codecBytes \o codecTail)
    /\ codecPc' = "handled"
    /\ UNCHANGED <<codecCase, codecTail, codecBytes>>
    /\ UNCHANGED outsideCodec

CodecInit ==
    /\ codecCase \in DOMAIN CodecCases
    /\ codecTail \in CodecTails
    /\ codecBytes = <<>>
    /\ codecRead = NoRead
    /\ codecPc = "given"
    /\ RegistryInit
    /\ disabled = Addr \ Keys(vec)
    /\ Len(vec) = Cardinality(Addr)
    /\ vec[1][1] = "a1" /\ vec[2][1] = "a2"
    /\ ClusterIdle
    /\ ConnectIdle
    /\ ChannelIdle
    /\ CounterIdle
    /\ FrameIdle
    /\ CorrelatorIdle

CodecNext ==
    \/ CodecGive
    \/ CodecWrite
    \/ CodecReadFrom
    \/ \E byte \in FirstBytes : CodecTamper(byte)
    \/ CodecReadTampered

SpecCodec == CodecInit /\ [][CodecNext]_vars

----------------------------------------------------------------------------
(* Claims about the Registry, checked under SpecRegistry                   *)

\* C3: with k >= 1 enabled members and no disable in between, consecutive
\* selections of Registry::get rotate with period k: the i-th and the
\* (i+k)-th selection are the same member, any k consecutive selections are k
\* distinct members, and all of them are enabled members.
C3_Rotation ==
    LET k == Len(vec)
        n == Len(selections)
    IN  k >= 1 =>
          /\ \A i \in 1..n : selections[i] \in SeqToSet(RegistryGetAll(vec))
          /\ \A i \in 1..n : i + k <= n => selections[i] = selections[i + k]
          /\ \A i \in 1..n :
                i + k - 1 <= n =>
                    Cardinality({selections[j] : j \in i..(i + k - 1)}) = k

\* Three enabled members and a fourth selection, which closes the period.
C3_Witness == Len(vec) = 3 /\ Len(selections) >= 4

\* C4: once disable(A) has completed, no call of get, get_by or get_all
\* returns the member registered under A.
C4_DisabledNeverReturned ==
    \A i \in DOMAIN reg : \A m \in reg[i].out :
        MemberAddress(m) \notin disableDone

\* get_by(A) answers None after disable(A), while another member is enabled.
C4_Witness ==
    /\ Len(reg) = 1
    /\ reg[1].fn = "get_by"
    /\ reg[1].key \in disableDone
    /\ reg[1].out = {}
    /\ Len(vec) >= 1

----------------------------------------------------------------------------
(* Claims about the Cluster and the PnCounter handle, under SpecCluster    *)

DispatchStep ==
    \/ PnCounterGet
    \/ \E get_before_update \in BOOLEAN : PnCounterAdd(get_before_update)
    \/ PnCounterReplicaCount

GetOrAddStep ==
    \/ PnCounterGet
    \/ \E get_before_update \in BOOLEAN : PnCounterAdd(get_before_update)

Enabled == Keys(vec)

\* C2: after a get, get_and_add or add_and_get of the handle has succeeded
\* against the member at address A, the handle's next such operation is sent
\* to the member at A, as long as A is still enabled.
C2_Sticky ==
    [][(GetOrAddStep /\ lastOk \in Enabled) => ret'.sentTo = {map[lastOk]}]_vars

\* C6: Cluster::dispatch fails with ClusterNonOperational and sends nothing
\* when no member is enabled at the moment of selection; otherwise it sends
\* the request to exactly one member, which is enabled at that moment.
C6_Dispatch ==
    [][DispatchStep =>
          IF Enabled = {}
          THEN ret'.res = "ClusterNonOperational" /\ ret'.sentTo = {}
          ELSE /\ ret'.res \in {"Ok", "ServerFailure", "CommunicationFailure"}
               /\ \E a \in Enabled : ret'.sentTo = {map[a]}]_vars

\* A dispatch that found no enabled member, after the only one was disabled.
C6_Witness ==
    /\ ret.op \in {"get", "get_and_add", "add_and_get", "replica_count"}
    /\ ret.res = "ClusterNonOperational"
    /\ Enabled = {}
    /\ Cardinality(disabled) = Cardinality(Addr)
    /\ \E a \in Addr : ~alive[a]

\* C7: Cluster::forward(request, A) fails with NodeNonOperational and sends
\* nothing when A is not the address of an enabled member; it sends to the
\* member at A, and to no other, when it is.
C7_Forward ==
    [][\A address \in Addr :
          ClusterForward(address) =>
              IF address \in Enabled
              THEN /\ ret'.sentTo = {map[address]}
                   /\ MemberAddress(map[address]) = address
                   /\ ret'.res # "NodeNonOperational"
              ELSE ret'.res = "NodeNonOperational" /\ ret'.sentTo = {}]_vars

\* A forward to a disabled address failed while another member was enabled.
C7_Witness ==
    /\ ret.op = "forward"
    /\ ret.res = "NodeNonOperational"
    /\ ret.arg \in disabled
    /\ ret.arg \notin Enabled
    /\ Enabled # {}

\* C8: Cluster::address(preferred) returns preferred when it is the address
\* of an enabled member; otherwise the address of the member round-robin
\* selection picks; it fails with ClusterNonOperational exactly when it has
\* to select and no member is enabled.
C8_Address ==
    [][\A address \in Addr \cup {NoAddr} :
          ClusterAddress(address) =>
              IF address \in Enabled
              THEN ret'.res = address /\ sequencer' = sequencer
              ELSE IF Enabled # {}
                   THEN /\ ret'.res = vec[(sequencer % Len(vec)) + 1][1]
                        /\ sequencer' = sequencer + 1
                   ELSE ret'.res = "ClusterNonOperational"]_vars

\* A preferred address that is disabled was replaced by an enabled one.
C8_Witness ==
    /\ ret.op = "address"
    /\ ret.arg \in disabled
    /\ ret.res \in Enabled
    /\ ret.res # ret.arg

\* C9: every tick of the pinger pings each enabled member; the pinger
\* disables a member whose ping ends on a failed channel, without changing
\* what any caller was returned; and once no member is enabled every
\* dispatch fails with ClusterNonOperational.
C9_PingDisables ==
    [][/\ \A a \in Addr :
             (pingCur = map[a] /\ pingCur # NoMember /\ ~alive[a] /\ PingDone) =>
                 /\ a \in disabled'
                 /\ a \notin Keys(vec')
                 /\ map'[a] = NoMember
                 /\ ret' = ret
       /\ PingTick => \A a \in Enabled : map[a] \in SeqToSet(pingQueue')
       /\ (Enabled = {} /\ DispatchStep) => ret'.res = "ClusterNonOperational"]_vars

\* The only enabled member's channel failed, the pinger disabled it and a
\* later dispatch failed.
C9_Witness ==
    /\ \E a \in Addr : ~alive[a] /\ a \in disabled /\ lastOk = NoAddr
    /\ Cardinality({a \in Addr : ~alive[a]}) = 1
    /\ Enabled = {}
    /\ ret.op = "get"
    /\ ret.res = "ClusterNonOperational"

----------------------------------------------------------------------------
(* Claims about the construction, under SpecConnect                        *)

\* The members the cluster holds, by the endpoint they were dialled at.
MemberEndpoints == {vec[i][2].endpoint : i \in DOMAIN vec}

\* C5: when none of the seed endpoints authenticates, the construction fails;
\* a Cluster never exists with an empty enabled set right after construction.
C5_NeverEmpty == connPc = "done" => Len(vec) >= 1

----------------------------------------------------------------------------
(* Claims about the channel, under SpecChannel                             *)

\* C1: each waiter receives exactly the reply whose correlation id equals
\* the id assigned to its own request, whatever the order of arrival; no
\* waiter receives the reply to another request.
C1_NoCrosstalk ==
    \A c \in Callers :
        sendResult[c].kind = "message" =>
            /\ sendResult[c].correlation_id = sendId[c]
            /\ sendResult[c].body = <<"reply", c>>

\* All three concurrent sends were answered, and the replies arrived in an
\* order that is not the order the requests were written in.
C1_Witness ==
    /\ \A c \in Callers : sendResult[c].kind = "message"
    /\ Len(arrived) = Cardinality(Callers)
    /\ arrived # written
    /\ written # <<1, 2, 3>>

\* C11: when the authentication response has a status other than 0,
\* Member::connect fails with an authentication failure that carries the
\* mapped status name.
C11_StatusName ==
    \A e \in Addr :
        (authStatus[e] \in {1, 2, 3} /\ e \in disconnected) =>
            connErr[e] = [kind |-> "AuthenticationFailure",
                          detail |-> AuthenticationStatus(authStatus[e])]

----------------------------------------------------------------------------
(* Claims about the counter handle, under SpecCounter                      *)

\* C12: when the reply's message type is 0x6D the caller gets a ServerFailure
\* carrying the decoded exception and no value; when it is the expected
\* response type the caller gets the decoded response.
C12_ServerFailure ==
    [][\A resp \in CounterReplies :
          CounterReply(resp) =>
              /\ resp.type = EXCEPTION_MESSAGE_TYPE =>
                    /\ counterRet'.kind = "ServerFailure"
                    /\ counterRet'.detail = resp.exception
                    /\ counterRet'.value = NoValue
              /\ resp.type = ExpectedType(counterOp.op) =>
                    /\ counterRet'.kind = "Ok"
                    /\ counterRet'.value = resp.value]_vars

\* An add was answered with an exception and returned the server failure.
C12_Witness ==
    /\ counterOp.op = "add_and_get"
    /\ response.type = EXCEPTION_MESSAGE_TYPE
    /\ counterRet.kind = "ServerFailure"
    /\ counterRet.detail = "NullPointerException"

\* C13: a reply whose type is neither the expected one nor 0x6D is returned
\* to the caller as a protocol-violation error and the caller keeps running.
C13_ProtocolViolation ==
    [][\A resp \in CounterReplies :
          (/\ CounterReply(resp)
           /\ resp.type \notin {ExpectedType(counterOp.op), EXCEPTION_MESSAGE_TYPE}) =>
              /\ counterRet'.kind = "ProtocolViolation"
              /\ counterPc' = "idle"]_vars

\* C14: the handle starts with an empty vector; after every successful get
\* or add the stored vector is the vector of that response, and the next
\* get/add request carries exactly that vector.
C14_VectorEchoed ==
    /\ operations = 0 => replica_timestamps = <<>>
    /\ replica_timestamps = lastVector
    /\ (counterPc = "wait" /\ counterOp.op # "replica_count") =>
           request.payload.replica_timestamps = lastVector

\* The second operation of the handle, a get, carries the vector the first
\* one's response brought.
C14_Witness ==
    /\ operations = 2
    /\ counterPc = "wait"
    /\ counterOp.op = "get"
    /\ request.payload.replica_timestamps = <<<<"r1", 7>>>>

\* C15: get_and_add sends an add request with get_before_update = true,
\* add_and_get one with get_before_update = false, each with the given
\* delta, and each returns the value of the response unchanged.
C15_AddFlags ==
    /\ counterOp.op \in {"get_and_add", "add_and_get"} /\ counterPc # "panic" =>
          /\ request.type = ADD_REQUEST_MESSAGE_TYPE
          /\ request.payload.delta = counterOp.delta
          /\ request.payload.get_before_update = (counterOp.op = "get_and_add")
    /\ counterOp.op \in {"get_and_add", "add_and_get"} /\ counterRet.kind = "Ok" =>
          counterRet.value = response.value

\* get_and_add(-1) was sent with the flag set and returned the response's 12.
C15_Witness ==
    /\ counterOp = [op |-> "get_and_add", delta |-> -1]
    /\ counterRet.kind = "Ok"
    /\ counterRet.value = 12
    /\ request.payload.get_before_update

\* C16: replica_count leaves the stored vector unchanged, whether it
\* succeeds or fails, and its request carries only the counter name.
C16_ReplicaCount ==
    counterOp.op = "replica_count" =>
        /\ replica_timestamps = before
        /\ request = [type |-> GET_REPLICA_COUNT_REQUEST_MESSAGE_TYPE,
                      payload |-> [name |-> CounterName]]

\* A handle that holds a non-empty vector ran replica_count successfully.
C16_Witness ==
    /\ counterOp.op = "replica_count"
    /\ counterRet.kind = "Ok"
    /\ before # <<>>

\* The requests pending at the channel task: enqueued, in hand, registered.
Pending ==
    {egress[i].responder : i \in DOMAIN egress}
    \cup ({taskFrame.responder} \ {NoCaller})
    \cup ({correlations[id] : id \in DOMAIN correlations} \ {NoCaller})

\* C17: when the channel task ends, every request pending at that moment
\* completes with a communication failure; none stays pending, none
\* receives a reply, then or later.
C17_PendingFail ==
    [][/\ (taskPc # "dead" /\ taskPc' = "dead") =>
              \A c \in Pending : sendPc[c] = "waiting" =>
                  /\ sendPc'[c] = "done"
                  /\ sendResult'[c] = Failed
       /\ taskPc = "dead" =>
              /\ \A c \in Callers : sendPc'[c] # "waiting"
              /\ \A c \in Callers : sendPc[c] = "done" => sendResult'[c] = sendResult[c]]_vars

\* The task ended on an error with one request registered and written, and
\* another still in the queue: both callers got the failure.
C17_Witness ==
    /\ taskPc = "dead"
    /\ UnknownId \notin SeqToSet(arrived)
    /\ \E c \in Callers : \E d \in Callers :
          /\ sendId[c] \in SeqToSet(written)
          /\ sendId[d] # 0 /\ sendId[d] \notin SeqToSet(written)
          /\ sendResult[c] = Failed
          /\ sendResult[d] = Failed
          /\ sendPc[c] = "done" /\ sendPc[d] = "done"

\* C18: when the caller drops the future of send before the reply arrives,
\* the request still goes out, the reply that arrives later is discarded
\* without reaching any waiter, and the channel task keeps serving the
\* other requests.
C18_DroppedFuture ==
    [][/\ \A c \in Callers :
             (sendPc[c] = "waiting" /\ sendPc'[c] = "dropped") =>
                 /\ egress' = egress
                 /\ taskFrame' = taskFrame
                 /\ received' = received
                 /\ correlations' = correlations
       /\ \A c \in Callers :
             (/\ TaskIngress
              /\ Head(ingress).correlation_id = sendId[c]
              /\ correlations[sendId[c]] = c
              /\ sendPc[c] = "dropped") =>
                 /\ taskPc' = "next"
                 /\ sendResult' = sendResult
                 /\ sendPc' = sendPc
                 /\ \A id \in DOMAIN correlations :
                       id # sendId[c] => correlations'[id] = correlations[id]]_vars

\* A caller dropped its future while waiting; the reply to its request
\* arrived all the same and was consumed without a result for it, and a
\* caller whose reply arrived after it was served.
C18_Witness ==
    /\ taskPc = "next"
    /\ ingress = <<>>
    /\ \E c \in Callers : \E d \in Callers :
          /\ sendPc[c] = "dropped"
          /\ sendResult[c] = NoResult
          /\ sendResult[d].kind = "message"
          /\ \E i \in DOMAIN arrived : \E j \in DOMAIN arrived :
                i < j /\ arrived[i] = sendId[c] /\ arrived[j] = sendId[d]

\* C19: an inbound frame whose correlation id has no slot is dropped: the
\* channel task does not terminate and the pending requests are untouched.
C19_UnknownIdDropped ==
    [][(/\ TaskIngress
        /\ CorrelationsRemove(correlations, Head(ingress).correlation_id) = NoCaller) =>
           /\ taskPc' = "next"
           /\ correlations' = correlations
           /\ sendPc' = sendPc
           /\ sendResult' = sendResult]_vars

----------------------------------------------------------------------------
(* Claims about the frame codec, under SpecFrame                           *)

\* C20: the encoded frame body is version 1, flags 0xC0, the message type,
\* the correlation id, the partition id, data offset 22 and then the
\* payload, in that order and little-endian; decoding that frame returns the
\* same message and the same correlation id.
C20_FrameLayout ==
    /\ framePc \in {"encoded", "decoded"} =>
          /\ Len(frameBytes) = 18 + Len(frameMessage.payload)
          /\ \A i \in DOMAIN frameBytes : frameBytes[i] \in 0..255
          /\ frameBytes[1] = 1
          /\ frameBytes[2] = 192
          /\ frameBytes[3] + 256 * frameBytes[4] = frameMessage.message_type
          /\ frameBytes[5] + 256 * frameBytes[6] + 65536 * frameBytes[7]
                + 16777216 * frameBytes[8] = frameId
          /\ \A i \in 9..12 : frameBytes[i] = 0
          /\ \A i \in 13..16 :
                frameBytes[i] = CASE frameMessage.partition_id = -1 -> 255
                                  [] i = 13 -> frameMessage.partition_id
                                  [] OTHER -> 0
          /\ frameBytes[17] = 22
          /\ frameBytes[18] = 0
          /\ SubSeq(frameBytes, 19, Len(frameBytes)) = frameMessage.payload
    /\ framePc = "decoded" =>
          frameDecoded = [kind |-> "Ok", message |-> frameMessage,
                          correlation_id |-> frameId]

\* The message (type 0x2001, partition -1, payload of two bytes) under the
\* correlation id 0x12345678 was encoded and decoded.
C20_Witness ==
    /\ framePc = "decoded"
    /\ frameMessage = [message_type |-> 8193, partition_id |-> -1,
                       payload |-> <<255, 0>>]
    /\ frameId = 305419896
    /\ frameBytes = <<1, 192, 1, 32, 120, 86, 52, 18, 0, 0, 0, 0,
                      255, 255, 255, 255, 22, 0, 255, 0>>

----------------------------------------------------------------------------
(* Claims about the order of the channel's steps, checked under SpecChannel *)

\* C24: the response slot of a request is in the correlation table before
\* the request's frame is handed to the socket writer: whenever the task has
\* written a frame, the frame's correlation id has its responder in the
\* table.
C24_SlotBeforeWrite ==
    taskPc = "insert" =>
        /\ taskFrame.correlation_id \in SeqToSet(written)
        /\ correlations[taskFrame.correlation_id] = taskFrame.responder

\* C25: the correlation ids of the frames written to the socket are
\* strictly increasing in the order of the writes, however the callers of
\* send interleave.
C25_IncreasingIds ==
    \A i, j \in DOMAIN written : i < j => written[i] < written[j]

\* C27: a correlation id leaves the table when the first inbound frame that
\* carries it is handled: every responder is handed at most one message, a
\* message is handed over only for a frame whose id has its slot, the slot
\* is gone afterwards, and so a second frame with the same id reaches no
\* waiter.
C27_RemovedOnFirstUse ==
    [][\A c \in Callers :
          /\ deliveries'[c] <= 1
          /\ deliveries'[c] # deliveries[c] =>
                /\ ingress # <<>>
                /\ Head(ingress).correlation_id = sendId[c]
                /\ correlations[sendId[c]] = c
                /\ correlations'[sendId[c]] = NoCaller]_vars

\* A second frame under an answered id has been handled: its waiter has the
\* one message of the first frame and the task has ended on the second.
C27_Witness ==
    \E i, j \in DOMAIN arrived :
        /\ i < j
        /\ arrived[i] = arrived[j]
        /\ ingress = <<>>
        /\ taskPc = "dead"
        /\ \E c \in Callers :
              /\ sendId[c] = arrived[i]
              /\ deliveries[c] = 1
              /\ sendResult[c].kind = "message"

\* d's frame was written before c's.
WrittenBefore(d, c) ==
    \E i, j \in DOMAIN written :
        i < j /\ written[i] = sendId[d] /\ written[j] = sendId[c]

\* C28: with two requests in flight, the reply to the one written later is
\* delivered to its caller by the step that handles it, while the earlier
\* request stays in flight: that step completes the later caller with the
\* reply and leaves the earlier caller waiting with its slot in the table.
C28_OutOfOrder ==
    [][\A c, d \in Callers :
          (/\ taskPc = "next" /\ egress = <<>> /\ ingress # <<>>
           /\ ingress' = Tail(ingress)
           /\ Head(ingress).correlation_id = sendId[c]
           /\ correlations[sendId[c]] = c /\ sendPc[c] = "waiting"
           /\ WrittenBefore(d, c)
           /\ correlations[sendId[d]] = d /\ sendPc[d] = "waiting")
          => /\ sendPc'[c] = "done"
             /\ sendResult'[c] = [kind |-> "message",
                                  correlation_id |-> sendId[c],
                                  body |-> <<"reply", c>>]
             /\ sendPc'[d] = "waiting"
             /\ correlations'[sendId[d]] = d]_vars

\* The later request has its reply while the earlier one still waits.
C28_Witness ==
    \E c, d \in Callers :
        /\ WrittenBefore(d, c)
        /\ sendPc[c] = "done"
        /\ sendResult[c].kind = "message"
        /\ sendResult[c].correlation_id = sendId[c]
        /\ sendPc[d] = "waiting"
        /\ correlations[sendId[d]] = d
        /\ taskPc = "next"

----------------------------------------------------------------------------
(* The opening of a connection, checked under SpecConnect                  *)

\* C29: on every connection the three bytes 0x43 0x42 0x32 are written
\* first, before any length-delimited frame, and only once; the first frame
\* after them is the authentication request.
C29_MagicFirst ==
    \A e \in Addr :
        wire[e] # <<>> =>
            /\ wire[e][1] = Raw(<<67, 66, 50>>)
            /\ \A i \in 2..Len(wire[e]) : wire[e][i].framed
            /\ Len(wire[e]) >= 2 => wire[e][2] = Framed("authentication")

\* A connection that carried the magic bytes, the authentication request
\* and a later request.
C29_Witness ==
    \E e \in Addr :
        /\ Len(wire[e]) = 3
        /\ wire[e][3] = Framed("request")
        /\ e \in created

----------------------------------------------------------------------------
(* Frames with another data offset, checked under SpecFrame                *)

\* C30: decoding a frame whose data offset is below the header length of
\* 22 is refused as malformed and reported as a protocol-violation error.
C30_ShortOffsetRejected ==
    (framePc = "handled" /\ DataOffset(frameBytes) < HEADER_LENGTH)
        => frameDecoded.kind = "ProtocolViolation"

----------------------------------------------------------------------------
(* The ids of the Correlator, checked under SpecCorrelator                 *)

\* C26: in a sequence of fewer than 2^63 calls (every run here has at most
\* MaxCalls), each call of Correlator::set returns an id strictly greater
\* than every id returned before and not present in the table, and the
\* 64-bit counter does not overflow.
C26_FreshIds ==
    /\ correlatorPc # "panic"
    /\ ~correlatorClash
    /\ \A i, j \in DOMAIN correlatorReturned :
          i < j => U64Less(correlatorReturned[i], correlatorReturned[j])

----------------------------------------------------------------------------
(* Claims about the codec, checked under SpecCodec                         *)

\* C21: an Option holding v is written as the byte 0x00 followed by the
\* encoding of v, an empty Option as the single byte 0x01; reading takes the
\* flag byte and yields a present value exactly when that byte is 0.
C21_OptionFlag ==
    LET type == CodecCases[codecCase].type
        value == CodecCases[codecCase].value
    IN  IsOption(type) =>
          /\ codecPc \in {"written", "read"} =>
                codecBytes = IF value = OptionNone
                             THEN <<1>>
                             ELSE <<0>> \o WriteTo(ElementType(type), value[1])
          /\ (codecPc \in {"read", "handled"} /\ codecRead.kind = "Ok") =>
                (codecRead.value # OptionNone <=> codecBytes[1] = 0)
          /\ (codecPc \in {"read", "handled"} /\ codecBytes[1] # 0) =>
                codecRead = ReadOk(OptionNone, Drop(codecBytes \o codecTail, 1))

\* Some(1u32) was written as 00 01 00 00 00 and read back as Some(1).
C21_Witness ==
    /\ codecPc = "read"
    /\ CodecCases[codecCase].type = "Option<u32>"
    /\ CodecCases[codecCase].value = OptionSome(1)
    /\ codecBytes = <<0, 1, 0, 0, 0>>
    /\ codecRead.kind = "Ok"
    /\ codecRead.value = OptionSome(1)

\* C22: for every type of the codec (the primitives, strings, options,
\* sequences, Address, ReplicaTimestampEntry) and every value v of it,
\* reading the bytes v was written as yields v and leaves exactly the bytes
\* that follow them in the buffer.
C22_RoundTrip ==
    codecPc = "read" =>
        /\ codecRead.kind = "Ok"
        /\ codecRead.value = CodecCases[codecCase].value
        /\ codecRead.rest = codecTail

\* A sequence of two replica timestamp entries, one with a negative value,
\* was written and read back with a byte following it in the buffer.
C22_Witness ==
    /\ codecPc = "read"
    /\ CodecCases[codecCase].type = "Vec<ReplicaTimestampEntry>"
    /\ Len(CodecCases[codecCase].value) = 2
    /\ codecTail = <<7>>
    /\ Len(codecBytes) = 4 + (4 + 3 + 8) + (4 + 0 + 8)
    /\ codecRead.kind = "Ok"
    /\ codecRead.value[2].value = -1

\* C31: a read that needs more bytes than the buffer has left, and a string
\* whose bytes are not UTF-8, end the decoding with a protocol error that is
\* returned to the caller; nothing panics.
C31_ReadFailureIsError ==
    (codecPc = "handled" /\ codecRead.kind # "Ok")
        => codecRead.kind = "ProtocolError"

----------------------------------------------------------------------------
(* More claims about the Registry, checked under SpecRegistry              *)

\* The pairs of v whose key is not key, in the order v has them.
RECURSIVE Without(_, _)
Without(v, key) ==
    IF v = <<>> THEN <<>>
    ELSE IF Head(v)[1] = key THEN Without(Tail(v), key)
    ELSE <<Head(v)>> \o Without(Tail(v), key)

\* C32: disable(A) leaves every member other than A, and their order in the
\* enabled list, as they were; and a disable(A) after a disable(A) leaves
\* the enabled list, the enabled map and the disabled set as they are.
C32_DisableIdempotent ==
    [][\A key \in Addr :
          reg' = <<Call("disable", key, {})>> =>
              /\ vec' = Without(vec, key)
              /\ \A a \in Addr \ {key} : map'[a] = map[a]
              /\ map'[key] = NoMember
              /\ disabled' = disabled \cup {key}
              /\ key \in disableDone =>
                    (vec' = vec /\ map' = map /\ disabled' = disabled)]_vars

\* a2 was the second of three enabled members, was disabled, and was
\* disabled again.
C32_Witness ==
    /\ disableCalls["a2"] = "again"
    /\ disableCalls["a1"] = "never" /\ disableCalls["a3"] = "never"
    /\ Keys(vec) = {"a1", "a3"}
    /\ reg = <<Call("disable", "a2", {})>>

\* C33: in the registry that Members::from builds out of the seed endpoints,
\* no address is both enabled and disabled, and no address occurs twice in
\* the enabled list.
C33_EnabledDisabledDisjoint ==
    connPc = "done" =>
        /\ Keys(vec) \cap disabled = {}
        /\ \A i, j \in 1..Len(vec) : vec[i][1] = vec[j][1] => i = j

----------------------------------------------------------------------------
(* More claims about the Cluster and its pinger, checked under SpecCluster *)

\* C34: over the life of a registry the enabled addresses only shrink and
\* the disabled addresses only grow: no step puts an address into the enabled
\* list or the enabled map, and no step takes one out of the disabled set.
C34_DisabledStaysDisabled ==
    [][/\ Keys(vec') \subseteq Keys(vec)
       /\ disabled \subseteq disabled'
       /\ \A a \in Addr : map[a] = NoMember => map'[a] = NoMember]_vars

\* a1's connection failed, a ping disabled it, and a later round is pinging
\* a2 with a1 still disabled.
C34_Witness ==
    /\ ~alive["a1"]
    /\ "a1" \in disabled
    /\ Keys(vec) = {"a2", "a3"}
    /\ pingPc = "round"
    /\ pingCur = Member("a2")

C39_RoundInSequence ==
    [][/\ (pingPc = "wait" /\ pingPc' = "round") =>
              pingQueue' = [i \in 1..Len(vec) |-> vec[i][2]]
       /\ (pingCur' # pingCur /\ pingCur' # NoMember) =>
              /\ pingCur = NoMember
              /\ pingQueue # <<>>
              /\ pingCur' = Head(pingQueue)
              /\ pingQueue' = Tail(pingQueue)
       /\ (pingPc = "round" /\ pingPc' = "round" /\ pingCur' = pingCur) =>
              pingQueue' = pingQueue
       /\ disabled' # disabled =>
              /\ pingCur # NoMember
              /\ pingCur' = NoMember
              /\ disabled' = disabled \cup {MemberAddress(pingCur)}
              /\ pingRes' \in {"ServerFailure", "CommunicationFailure"}
       /\ (pingCur # NoMember /\ pingCur' = NoMember /\ pingRes' = "Ok") =>
              /\ disabled' = disabled
              /\ vec' = vec]_vars

\* In one round a1's ping was answered and left it enabled, and a2's ping
\* has just returned an error and disabled it, with a3 still to be pinged.
C39_Witness ==
    /\ pingPc = "round"
    /\ pingCur = NoMember
    /\ pingRes = "CommunicationFailure"
    /\ pingQueue = <<Member("a3")>>
    /\ Keys(vec) = {"a1", "a3"}
    /\ disabled = {"a2"}
    /\ alive["a1"]

----------------------------------------------------------------------------
(* More claims about the PnCounter, checked under SpecCounter              *)

CounterFailures == {"CommunicationFailure", "ServerFailure", "ClusterNonOperational"}

\* C36: a counter operation whose dispatch fails has called dispatch once
\* and no more, ends with that error as its result, and leaves the stored
\* replica-timestamp vector as it was when the operation was called; no
\* operation calls dispatch twice.
C36_FailureReturned ==
    [][/\ dispatches' <= 1
       /\ \A kind \in CounterFailures :
             (counterPc = "wait" /\ counterPc' = "idle" /\ counterRet'.kind = kind) =>
                 /\ counterRet'.value = NoValue
                 /\ dispatches' = 1
                 /\ request' = request
                 /\ replica_timestamps' = replica_timestamps
                 /\ replica_timestamps' = before
                 /\ operations' = operations]_vars

\* An operation stored a vector of two entries; the next one failed on the
\* connection and the vector is still stored.
C36_Witness ==
    /\ counterPc = "idle"
    /\ counterRet.kind = "CommunicationFailure"
    /\ operations = 2
    /\ dispatches = 1
    /\ Len(replica_timestamps) = 2
    /\ replica_timestamps = before

----------------------------------------------------------------------------
(* More claims about the Channel, checked under SpecChannel                *)

\* C38: a send whose enqueue comes after the task has ended returns an error
\* at the enqueue and puts nothing into the queue; a send that sits in the
\* queue when the task ends returns an error in that step; and with the
\* task ended the queue and the table are empty and no caller waits.
C38_LateSendFails ==
    [][/\ \A c \in Callers :
             (taskPc = "dead" /\ sendPc[c] = "encoded" /\ sendPc'[c] # "encoded") =>
                 /\ sendPc'[c] = "done"
                 /\ sendResult'[c] = Closed
                 /\ egress' = <<>>
                 /\ correlations' = correlations
       /\ (taskPc # "dead" /\ taskPc' = "dead") =>
             \A i \in DOMAIN egress :
                 sendPc[egress[i].responder] = "waiting" =>
                     /\ sendPc'[egress[i].responder] = "done"
                     /\ sendResult'[egress[i].responder] = Failed
       /\ taskPc' = "dead" =>
             /\ egress' = <<>>
             /\ \A id \in DOMAIN correlations : correlations'[id] = NoCaller
             /\ \A c \in Callers : sendPc'[c] # "waiting"]_vars

\* The task ended on a failed write with c1 and c2 waiting, neither written
\* (one frame in hand, the other in the queue), and c3 called send
\* afterwards: all three were returned an error.
C38_Witness ==
    /\ taskPc = "dead"
    /\ written = <<>>
    /\ sendResult["c1"] = Failed /\ sendPc["c1"] = "done"
    /\ sendResult["c2"] = Failed /\ sendPc["c2"] = "done"
    /\ sendResult["c3"] = Closed /\ sendPc["c3"] = "done"
    /\ egress = <<>>

\* What Channel::send of caller c returns on the reply to its own request.
ReplyFor(c) ==
    [kind |-> "message", correlation_id |-> sendId[c],
     body |-> ReplyTo(MessageCodecEncode(c, sendId[c])).body]

\* C37: every send that its caller awaits returns: with the reply to its
\* own request, or, the task having ended, with an error; and once the task
\* has ended no caller is left waiting.
C37_SendReturns ==
    /\ \A c \in Callers :
          (sendPc[c] \in {"encoded", "waiting"}) ~> (sendPc[c] \in {"done", "dropped"})
    /\ [](\A c \in Callers :
             sendPc[c] = "done" =>
                 \/ sendResult[c] = ReplyFor(c)
                 \/ taskPc = "dead" /\ sendResult[c] \in {Failed, Closed})
    /\ [](taskPc = "dead" => \A c \in Callers : sendPc[c] # "waiting")

\* c1 was returned the reply to its request; then the connection failed and
\* c2, which was waiting, was returned an error.
C37_Witness ==
    /\ sendPc["c1"] = "done" /\ sendResult["c1"] = ReplyFor("c1")
    /\ sendPc["c2"] = "done" /\ sendResult["c2"] = Failed
    /\ sendId["c2"] \in SeqToSet(written)
    /\ taskPc = "dead"
    /\ UnknownId \notin SeqToSet(arrived)
    /\ Cardinality(SeqToSet(arrived)) = Len(arrived)

====
